---------------------------- MODULE Spec2Model ----------------------------
(***************************************************************************)
(* ProbeScout backend: the scan-state model (scan_state.py), the goal      *)
(* evaluator (goal.py), the intent validator (guardrails.py,               *)
(* action_menu.py), the nmap argv compiler (action_menu.py) and the        *)
(* observe-decide-act loop (agent.py) with the status the API reports      *)
(* (app.py).                                                               *)
(***************************************************************************)
EXTENDS Integers, Sequences, FiniteSets, TLC

VARIABLES
    goal_id,                \* run_scan(goal_id=...)
    run_sudo,               \* config_loader.get_run_nmap_sudo()
    nmap_execution,         \* config_loader.get_nmap_execution()
    state,                  \* the ScanState of the run
    step_count,             \* agent.py: step_count
    consecutive_rejections, \* agent.py: consecutive_rejections
    last_action_id,         \* agent.py: last_action_id
    stage_outputs,          \* agent.py: stage_outputs (the action id of each)
    pc,                     \* position of run_scan
    cur,                    \* the invocation in progress (action id, argv)
    iter,                   \* the current iteration: oracle call, verdict, children started
    llm_calls,              \* number of chat() calls made
    nmap_calls,             \* argv of every child process started, in order
    scan_status,            \* app.py: _scan_status
    proc,                   \* nmap_runner.py: the child and the readers of one run_nmap call
    app                     \* app.py: the other globals under _scan_lock, the lock, the poller

vars == <<goal_id, run_sudo, nmap_execution, state, step_count,
          consecutive_rejections, last_action_id, stage_outputs, pc, cur,
          iter, llm_calls, nmap_calls, scan_status, proc, app>>

config == <<goal_id, run_sudo, nmap_execution>>

\* No run_nmap call is under observation.
NoProc == [mode |-> "none"]

\* The status globals are not under observation.
NoApp == [lock |-> "none"]

-----------------------------------------------------------------------------
(* Python values *)

\* Python None, where the other values of the type are strings.
None == "<None>"

\* A module's strings hold ASCII only: "#" stands for U+0662, ARABIC-INDIC
\* DIGIT TWO, a decimal digit (category Nd) outside ASCII.  No input uses "#"
\* for itself.
ArabicIndicTwo == "#"

\* Characters in code-point order, for str comparison and str.lower(): ASCII,
\* then U+0662.
ASCII ==
    << " ", "+", ",", "-", ".", "0", "1", "2", "3", "4", "5", "6", "7", "8",
       "9", ";", "A", "B", "C", "D", "E", "F", "G", "H", "I", "J", "K", "L",
       "M", "N", "O", "P", "Q", "R", "S", "T", "U", "V", "W", "X", "Y", "Z",
       "_", "a", "b", "c", "d", "e", "f", "g", "h", "i", "j", "k", "l", "m",
       "n", "o", "p", "q", "r", "s", "t", "u", "v", "w", "x", "y", "z",
       ArabicIndicTwo >>

\* ord(c), as the place of c in ASCII.
OrdTable ==
    [c \in {ASCII[i] : i \in 1..Len(ASCII)} |-> CHOOSE i \in 1..Len(ASCII) : ASCII[i] = c]

Ord(c) == OrdTable[c]

\* The decimal digits of ASCII.
AsciiDigits == {"0", "1", "2", "3", "4", "5", "6", "7", "8", "9"}

\* What \d of a str pattern matches and int() reads: every Unicode decimal
\* digit.
Digits == AsciiDigits \cup {ArabicIndicTwo}

\* The value int() gives a digit.
DigitVal(c) == IF c = ArabicIndicTwo THEN 2 ELSE Ord(c) - Ord("0")

IsUpper(c) == Ord(c) >= Ord("A") /\ Ord(c) <= Ord("Z")

\* str.lower() of one character.
LowerChar(c) == IF IsUpper(c) THEN ASCII[Ord(c) - Ord("A") + Ord("a")] ELSE c

RECURSIVE lower(_)
lower(s) == IF s = "" THEN "" ELSE LowerChar(Head(s)) \o lower(Tail(s))

RECURSIVE lstrip(_)
lstrip(s) == IF s # "" /\ Head(s) = " " THEN lstrip(Tail(s)) ELSE s

RECURSIVE rstrip(_)
rstrip(s) ==
    IF s # "" /\ SubSeq(s, Len(s), Len(s)) = " "
    THEN rstrip(SubSeq(s, 1, Len(s) - 1))
    ELSE s

\* str.strip()
strip(s) == rstrip(lstrip(s))

\* Python's `x or d` for an optional string.
OrElse(x, d) == IF x = None \/ x = "" THEN d ELSE x

RECURSIVE StrLess(_, _)
\* a < b for Python strings.
StrLess(a, b) ==
    IF b = "" THEN FALSE
    ELSE IF a = "" THEN TRUE
    ELSE IF Head(a) = Head(b) THEN StrLess(Tail(a), Tail(b))
    ELSE Ord(Head(a)) < Ord(Head(b))

RECURSIVE DigitsValue(_, _)
DigitsValue(s, acc) ==
    IF s = "" THEN acc ELSE DigitsValue(Tail(s), 10 * acc + DigitVal(Head(s)))

RECURSIVE AllDigits(_)
AllDigits(s) == s = "" \/ (Head(s) \in Digits /\ AllDigits(Tail(s)))

\* Python int(s): surrounding blanks and one sign are accepted; ok = FALSE
\* stands for ValueError.
int(s) ==
    LET t == strip(s)
        signed == t # "" /\ Head(t) \in {"+", "-"}
        d == IF signed THEN Tail(t) ELSE t
    IN  IF d = "" \/ ~AllDigits(d)
        THEN [ok |-> FALSE, val |-> 0]
        ELSE [ok |-> TRUE,
              val |-> IF signed /\ Head(t) = "-"
                      THEN 0 - DigitsValue(d, 0)
                      ELSE DigitsValue(d, 0)]

\* list.index of the first occurrence of character c in s, 0 when absent.
RECURSIVE FindChar(_, _, _)
FindChar(s, c, i) ==
    IF i > Len(s) THEN 0
    ELSE IF SubSeq(s, i, i) = c THEN i
    ELSE FindChar(s, c, i + 1)

\* str.split(c): the parts of s between occurrences of c.
RECURSIVE split(_, _)
split(s, c) ==
    LET i == FindChar(s, c, 1)
    IN  IF i = 0 THEN <<s>>
        ELSE <<SubSeq(s, 1, i - 1)>> \o split(SubSeq(s, i + 1, Len(s)), c)

\* str(n) for n >= 0.
RECURSIVE str(_)
str(n) ==
    IF n < 10 THEN ASCII[Ord("0") + n]
    ELSE str(n \div 10) \o ASCII[Ord("0") + (n % 10)]

\* list.sort(key=lambda x: (x[1], x[0])): stable, by (protocol, port).
KeyLess(a, b) == StrLess(a[2], b[2]) \/ (a[2] = b[2] /\ a[1] < b[1])

RECURSIVE InsertByKey(_, _)
InsertByKey(x, sorted) ==
    IF sorted = <<>> THEN <<x>>
    ELSE IF KeyLess(x, Head(sorted)) THEN <<x>> \o sorted
    ELSE <<Head(sorted)>> \o InsertByKey(x, Tail(sorted))

RECURSIVE SortByProtoPort(_)
SortByProtoPort(l) ==
    IF l = <<>> THEN <<>>
    ELSE InsertByKey(l[Len(l)], SortByProtoPort(SubSeq(l, 1, Len(l) - 1)))

\* `x in l` for a list.
In(x, l) == \E i \in 1..Len(l) : l[i] = x

-----------------------------------------------------------------------------
(* scan_state.py *)

\* ScanState.initial(target); the target is fixed for the run and is the
\* last element of every argv.
Target == "scanme"

initial ==
    [ host_reachability |-> "unknown",
      host_addr |-> None,
      hostname |-> None,
      open_ports |-> <<>>,
      services |-> <<>>,
      os_fingerprint_done |-> FALSE,
      os_guess |-> None,
      scans_run |-> <<>>,
      nmap_run_count |-> 0 ]

(***************************************************************************)
(* The scanner's structured output as ElementTree sees it.  kind is        *)
(* "empty" (blank text), "malformed" (ET.ParseError) or "doc"; a doc has   *)
(* the host elements below its root.  A host element has has_status /      *)
(* status (the state attribute), has_address / addrtype / addr (its first  *)
(* address child), hostnames (the name attributes of the hostname          *)
(* children of its first hostnames child), has_ports / ports, has_os /     *)
(* osmatches.  A port element has portid, protocol (None when the          *)
(* attribute is absent), has_state / state, has_service / name / product / *)
(* version.  An osmatch has name and accuracy (None when absent).          *)
(***************************************************************************)
EmptyXml == [kind |-> "empty", hosts |-> <<>>]

MalformedXml == [kind |-> "malformed", hosts |-> <<>>]

Doc(hosts) == [kind |-> "doc", hosts |-> hosts]

Host(status, addr, names, has_ports, ports, has_os, osmatches) ==
    [ has_status |-> status # None, status |-> status,
      has_address |-> addr # None, addrtype |-> "ipv4", addr |-> addr,
      hostnames |-> names,
      has_ports |-> has_ports, ports |-> ports,
      has_os |-> has_os, osmatches |-> osmatches ]

Port(portid, protocol, st) ==
    [ portid |-> portid, protocol |-> protocol,
      has_state |-> st # None, state |-> st,
      has_service |-> FALSE, name |-> None, product |-> None, version |-> None ]

ServicePort(portid, protocol, st, name, product, version) ==
    [ portid |-> portid, protocol |-> protocol,
      has_state |-> st # None, state |-> st,
      has_service |-> TRUE, name |-> name, product |-> product, version |-> version ]

OsMatch(name, accuracy) == [name |-> name, accuracy |-> accuracy]

\* update_from_nmap_xml, action_id == "host_reachability", parsed document.
update_host_reachability(st, xml) ==
    IF xml.hosts = <<>>
    THEN [st EXCEPT !.host_reachability = "no_response"]
    ELSE
        LET host == xml.hosts[1]
            state_val == IF host.has_status THEN lower(OrElse(host.status, "")) ELSE ""
            s1 == [st EXCEPT !.host_reachability =
                        IF state_val = "up" THEN "up" ELSE "no_response"]
            s2 == IF host.has_address /\ host.addrtype = "ipv4"
                  THEN [s1 EXCEPT !.host_addr = host.addr]
                  ELSE s1
        IN  IF host.hostnames # <<>> /\ OrElse(host.hostnames[1], "") # ""
            THEN [s2 EXCEPT !.hostname = host.hostnames[1]]
            ELSE s2

\* The loop over osmatch elements: the first candidate of strictly greatest
\* accuracy among those with a non-blank name.
RECURSIVE best_osmatch(_, _, _)
best_osmatch(osmatches, best_name, best_acc) ==
    IF osmatches = <<>> THEN best_name
    ELSE
        LET m == Head(osmatches)
            name == strip(OrElse(m.name, ""))
            parsed == int(OrElse(m.accuracy, "0"))
            acc == IF parsed.ok THEN parsed.val ELSE 0
        IN  IF name = "" THEN best_osmatch(Tail(osmatches), best_name, best_acc)
            ELSE IF acc > best_acc THEN best_osmatch(Tail(osmatches), name, acc)
            ELSE best_osmatch(Tail(osmatches), best_name, best_acc)

\* update_from_nmap_xml, action_id == "os_fingerprint", parsed document: only
\* the first host with an os element is read.
RECURSIVE update_os_fingerprint(_, _)
update_os_fingerprint(st, hosts) ==
    IF hosts = <<>> THEN st
    ELSE IF ~Head(hosts).has_os THEN update_os_fingerprint(st, Tail(hosts))
    ELSE
        LET best_name == best_osmatch(Head(hosts).osmatches, None, -1)
        IN  IF best_name # None THEN [st EXCEPT !.os_guess = best_name] ELSE st

\* The port elements of every host that has a ports element, in order.
RECURSIVE all_ports(_)
all_ports(hosts) ==
    IF hosts = <<>> THEN <<>>
    ELSE (IF Head(hosts).has_ports THEN Head(hosts).ports ELSE <<>>)
         \o all_ports(Tail(hosts))

\* Mutant of append_open_ports: the `existing` set is not consulted.
RECURSIVE append_open_ports_no_existing(_, _)
append_open_ports_no_existing(open_ports, ports) ==
    IF ports = <<>> THEN open_ports
    ELSE
        LET p == Head(ports)
            num == int(OrElse(p.portid, ""))
            proto == OrElse(lower(strip(OrElse(p.protocol, "tcp"))), "tcp")
            key == <<num.val, proto>>
            st == IF p.has_state THEN lower(strip(OrElse(p.state, ""))) ELSE ""
        IN  IF OrElse(p.portid, "") = "" \/ ~num.ok \/ st # "open"
            THEN append_open_ports_no_existing(open_ports, Tail(ports))
            ELSE append_open_ports_no_existing(Append(open_ports, key), Tail(ports))

\* update_from_nmap_xml, action_id == "port_scan": the appends of the loop
\* over port elements (open_ports grows, `existing` is its set of keys).
RECURSIVE append_open_ports(_, _)
append_open_ports(open_ports, ports) ==
    IF ports = <<>> THEN open_ports
    ELSE
        LET p == Head(ports)
            num == int(OrElse(p.portid, ""))
            proto == OrElse(lower(strip(OrElse(p.protocol, "tcp"))), "tcp")
            key == <<num.val, proto>>
            st == IF p.has_state THEN lower(strip(OrElse(p.state, ""))) ELSE ""
        IN  IF OrElse(p.portid, "") = "" \/ ~num.ok \/ In(key, open_ports) \/ st # "open"
            THEN append_open_ports(open_ports, Tail(ports))
            ELSE append_open_ports(Append(open_ports, key), Tail(ports))

\* update_from_nmap_xml, action_id in (service_detect, service_detect_common):
\* the appends of the loop over port elements.
RECURSIVE append_services(_, _)
append_services(services, ports) ==
    IF ports = <<>> THEN services
    ELSE
        LET p == Head(ports)
            num == int(OrElse(p.portid, ""))
            proto == lower(IF p.protocol = None THEN "tcp" ELSE p.protocol)
            name0 == IF p.has_service THEN p.name ELSE None
            product == IF p.has_service THEN p.product ELSE None
            version == IF p.has_service THEN p.version ELSE None
            svc_name == IF OrElse(product, "") # "" /\ OrElse(name0, "") = ""
                        THEN product ELSE name0
            entry == <<num.val, proto, OrElse(svc_name, None), OrElse(version, None)>>
        IN  IF OrElse(p.portid, "") = "" \/ ~num.ok
            THEN append_services(services, Tail(ports))
            ELSE append_services(Append(services, entry), Tail(ports))

\* Mutant of update_from_nmap_xml: an output that is empty or does not parse
\* is ignored for every action.
update_from_nmap_xml_no_data_ignored(st, action_id, xml) ==
    LET s0 == IF action_id = "os_fingerprint"
              THEN [st EXCEPT !.os_fingerprint_done = TRUE]
              ELSE st
    IN  IF xml.kind \in {"empty", "malformed"}
        THEN s0
        ELSE IF action_id = "host_reachability"
             THEN update_host_reachability(s0, xml)
        ELSE IF action_id = "os_fingerprint"
             THEN update_os_fingerprint(s0, xml.hosts)
        ELSE IF action_id = "port_scan"
             THEN [s0 EXCEPT !.open_ports =
                      SortByProtoPort(append_open_ports(@, all_ports(xml.hosts)))]
        ELSE IF action_id \in {"service_detect", "service_detect_common"}
             THEN [s0 EXCEPT !.services =
                      SortByProtoPort(append_services(@, all_ports(xml.hosts)))]
        ELSE s0

update_from_nmap_xml(st, action_id, xml) ==
    LET s0 == IF action_id = "os_fingerprint"
              THEN [st EXCEPT !.os_fingerprint_done = TRUE]
              ELSE st
    IN  IF xml.kind \in {"empty", "malformed"}
        THEN IF action_id = "host_reachability"
             THEN [s0 EXCEPT !.host_reachability = "no_response"]
             ELSE s0
        ELSE IF action_id = "host_reachability"
             THEN update_host_reachability(s0, xml)
        ELSE IF action_id = "os_fingerprint"
             THEN update_os_fingerprint(s0, xml.hosts)
        ELSE IF action_id = "port_scan"
             THEN [s0 EXCEPT !.open_ports =
                      SortByProtoPort(append_open_ports(@, all_ports(xml.hosts)))]
        ELSE IF action_id \in {"service_detect", "service_detect_common"}
             THEN [s0 EXCEPT !.services =
                      SortByProtoPort(append_services(@, all_ports(xml.hosts)))]
        ELSE s0

-----------------------------------------------------------------------------
(* goal.py *)

PORT_SCAN_GOAL_IDS ==
    { "well_known_tcp", "full_stealth_tcp", "quick_top_ports", "common_ports",
      "web_ports", "compliance_ports" }

\* GOALS: id and achieved_when of each entry.
GOALS ==
    << [id |-> "simple_recon", achieved_when |-> "full"],
       [id |-> "well_known_tcp", achieved_when |-> "full"],
       [id |-> "full_stealth_tcp", achieved_when |-> "port_scan_only"],
       [id |-> "quick_top_ports", achieved_when |-> "port_scan_only"],
       [id |-> "common_ports", achieved_when |-> "port_scan_and_services"],
       [id |-> "web_ports", achieved_when |-> "port_scan_and_services"],
       [id |-> "compliance_ports", achieved_when |-> "port_scan_and_services"],
       [id |-> "external_perimeter", achieved_when |-> "full"] >>

\* Mutant of is_port_scan_goal: no goal forbids the host check.
is_port_scan_goal_never(g) == FALSE

is_port_scan_goal(g) == g \in PORT_SCAN_GOAL_IDS

\* The lookup at the head of goal_achieved.
achieved_when_of(g) ==
    IF g # None /\ g # "" /\ \E i \in 1..Len(GOALS) : GOALS[i].id = g
    THEN GOALS[CHOOSE i \in 1..Len(GOALS) : GOALS[i].id = g].achieved_when
    ELSE "full"

\* Mutant of goal_achieved: a port scan counts only once the host has
\* answered the host check.
goal_achieved_after_host_up(st, g) ==
    st.host_reachability = "up" /\ In("port_scan", st.scans_run)

\* Mutant of goal_achieved: the OS fingerprint is required in every mode.
goal_achieved_with_os(st, g) ==
    /\ In("port_scan", st.scans_run)
    /\ In("service_detect", st.scans_run) \/ In("service_detect_common", st.scans_run)
    /\ st.os_fingerprint_done

\* Mutant of goal_achieved: a host that did not answer does not end the run.
goal_achieved_by_scans_only(st, g) ==
    LET achieved_when == achieved_when_of(g)
        port_done == In("port_scan", st.scans_run)
        services_done == In("service_detect", st.scans_run)
                         \/ In("service_detect_common", st.scans_run)
    IN  IF achieved_when = "port_scan_only" THEN port_done
        ELSE IF achieved_when = "port_scan_and_services"
             THEN port_done /\ services_done
        ELSE IF st.host_reachability # "up" /\ ~is_port_scan_goal(g) THEN FALSE
        ELSE services_done /\ st.os_fingerprint_done

goal_achieved(st, g) ==
    LET achieved_when == achieved_when_of(g)
        port_done == In("port_scan", st.scans_run)
        services_done == In("service_detect", st.scans_run)
                         \/ In("service_detect_common", st.scans_run)
    IN  IF achieved_when = "port_scan_only" /\ port_done THEN TRUE
        ELSE IF achieved_when = "port_scan_and_services" /\ port_done /\ services_done
             THEN TRUE
        ELSE IF achieved_when = "port_scan_and_services"
                /\ st.host_reachability = "no_response"
             THEN FALSE
        ELSE IF st.host_reachability = "no_response"
             THEN IF achieved_when = "port_scan_only" THEN port_done
                  ELSE IF achieved_when = "port_scan_and_services" THEN FALSE
                  ELSE TRUE
        ELSE IF st.host_reachability # "up" /\ ~is_port_scan_goal(g) THEN FALSE
        ELSE IF achieved_when = "port_scan_only" THEN port_done
        ELSE IF achieved_when = "port_scan_and_services"
             THEN port_done /\ services_done
        ELSE services_done /\ st.os_fingerprint_done

-----------------------------------------------------------------------------
(* action_menu.py *)

ALLOWED_INTENTS ==
    {"host_reachability", "port_scan", "service_detect", "os_fingerprint", "done"}

\* Mutant of _SYN_SCAN_ACTIONS: service detection is not listed.
_SYN_SCAN_ACTIONS_port_scan_only == {"port_scan"}

_SYN_SCAN_ACTIONS == {"port_scan", "service_detect", "service_detect_common"}

COMMON_PORTS == {22, 80, 443, 8080, 8443}

_MAX_PORT == 65535

DEFAULT_TIMEOUT == 300

OS_DETECT_CLOSED_PORT == 44444

\* _nmap_bin(): shutil.which("nmap") or "/usr/bin/nmap".
nmap_path == "/usr/bin/nmap"

\* _PORT_RANGE_RE: ^[\d,\-]+$
_PORT_RANGE_RE(s) ==
    s # "" /\ \A i \in 1..Len(s) : SubSeq(s, i, i) \in Digits \cup {",", "-"}

\* The body of the loop of _validate_port_range for one part: TRUE when the
\* part makes the function return None.
bad_part(part0) ==
    LET part == strip(part0)
        i == FindChar(part, "-", 1)
        low == int(strip(SubSeq(part, 1, i - 1)))
        high == int(strip(SubSeq(part, i + 1, Len(part))))
        p == int(part)
    IN  IF part = "" THEN TRUE
        ELSE IF i # 0
             THEN ~low.ok \/ ~high.ok
                  \/ low.val < 1 \/ high.val > _MAX_PORT \/ low.val > high.val
        ELSE ~p.ok \/ p.val < 1 \/ p.val > _MAX_PORT

\* _validate_port_range(value): the normalized range, or None.
_validate_port_range(value) ==
    IF value = None \/ value = "" THEN None
    ELSE
        LET s == strip(value)
            parts == split(s, ",")
        IN  IF s = "" \/ ~_PORT_RANGE_RE(s) THEN None
            ELSE IF \E k \in 1..Len(parts) : bad_part(parts[k]) THEN None
            ELSE s

\* `any(p in COMMON_PORTS for p, _ in state.open_ports)`
any_common_open(open_ports) ==
    \E k \in 1..Len(open_ports) : open_ports[k][1] \in COMMON_PORTS

\* Mutant of intent_to_action_id: service detection is accepted without an
\* open port.
intent_to_action_id_services_unchecked(intent0, params, st, g) ==
    LET intent == lower(strip(OrElse(intent0, "")))
        range_val == strip(OrElse(OrElse(params.range, params.port_range), ""))
        scope == lower(strip(OrElse(params.scope, "all")))
        action_id == IF scope = "common" THEN "service_detect_common"
                     ELSE "service_detect"
    IN  IF goal_achieved(st, g) /\ intent0 # "done" THEN None
        ELSE IF intent \notin ALLOWED_INTENTS THEN None
        ELSE IF intent = "done" THEN "done"
        ELSE IF intent = "host_reachability"
             THEN IF is_port_scan_goal(g) THEN None ELSE "host_reachability"
        ELSE IF intent = "os_fingerprint" THEN "os_fingerprint"
        ELSE IF intent = "port_scan"
             THEN IF _validate_port_range(range_val) = None THEN None
                  ELSE "port_scan"
        ELSE IF intent = "service_detect" THEN action_id
        ELSE None

\* Mutant of intent_to_action_id: without the test of the achieved goal.
intent_to_action_id_goal_unchecked(intent0, params, st, g) ==
    LET intent == lower(strip(OrElse(intent0, "")))
        range_val == strip(OrElse(OrElse(params.range, params.port_range), ""))
        scope == lower(strip(OrElse(params.scope, "all")))
        action_id == IF scope = "common" THEN "service_detect_common"
                     ELSE "service_detect"
    IN  IF intent \notin ALLOWED_INTENTS THEN None
        ELSE IF intent = "done" THEN "done"
        ELSE IF intent = "host_reachability"
             THEN IF is_port_scan_goal(g) THEN None ELSE "host_reachability"
        ELSE IF intent = "os_fingerprint" THEN "os_fingerprint"
        ELSE IF intent = "port_scan"
             THEN IF _validate_port_range(range_val) = None THEN None
                  ELSE "port_scan"
        ELSE IF intent = "service_detect"
             THEN IF st.open_ports = <<>> THEN None
                  ELSE IF action_id = "service_detect_common"
                          /\ ~any_common_open(st.open_ports)
                       THEN None
                  ELSE action_id
        ELSE None

\* intent_to_action_id(intent, params, state, goal_id): the allow-listed
\* action id, or None.
intent_to_action_id(intent0, params, st, g) ==
    LET intent == lower(strip(OrElse(intent0, "")))
        range_val == strip(OrElse(OrElse(params.range, params.port_range), ""))
        scope == lower(strip(OrElse(params.scope, "all")))
        action_id == IF scope = "common" THEN "service_detect_common"
                     ELSE "service_detect"
    IN  IF goal_achieved(st, g) /\ intent0 # "done" THEN None
        ELSE IF intent \notin ALLOWED_INTENTS THEN None
        ELSE IF intent = "done" THEN "done"
        ELSE IF intent = "host_reachability"
             THEN IF is_port_scan_goal(g) THEN None ELSE "host_reachability"
        ELSE IF intent = "os_fingerprint" THEN "os_fingerprint"
        ELSE IF intent = "port_scan"
             THEN IF _validate_port_range(range_val) = None THEN None
                  ELSE "port_scan"
        ELSE IF intent = "service_detect"
             THEN IF st.open_ports = <<>> THEN None
                  ELSE IF action_id = "service_detect_common"
                          /\ ~any_common_open(st.open_ports)
                       THEN None
                  ELSE action_id
        ELSE None

\* sorted(set(p for p, _ in open_ports)), the ports of `among` only.
RECURSIVE sorted_set(_)
sorted_set(S) ==
    IF S = {} THEN <<>>
    ELSE LET m == CHOOSE x \in S : \A y \in S : x <= y
         IN  <<m>> \o sorted_set(S \ {m})

\* Mutant of port_numbers: the common ports are probed whether known open or
\* not.
port_numbers_with_common(open_ports) ==
    {open_ports[k][1] : k \in 1..Len(open_ports)} \cup COMMON_PORTS

port_numbers(open_ports) == {open_ports[k][1] : k \in 1..Len(open_ports)}

\* ",".join(str(p) for p in ports)
RECURSIVE join_ports(_)
join_ports(ports) ==
    IF ports = <<>> THEN ""
    ELSE IF Len(ports) = 1 THEN str(ports[1])
    ELSE str(ports[1]) \o "," \o join_ports(Tail(ports))

first3(l) == SubSeq(l, 1, IF Len(l) < 3 THEN Len(l) ELSE 3)

\* get_nmap_argv(action_id, target, use_sudo, timeout_sec, open_ports,
\* port_range): raises = TRUE for the RuntimeError, argv = <<>> for None.
get_nmap_argv(action_id, target, use_sudo, timeout_sec, open_ports, port_range) ==
    LET t == str(timeout_sec)
        p_arg == IF OrElse(port_range, "") # ""
                 THEN _validate_port_range(port_range) ELSE None
        all_open == sorted_set(port_numbers(open_ports))
        common_open == sorted_set(port_numbers(open_ports) \cap COMMON_PORTS)
        sd_arg == IF open_ports # <<>> THEN join_ports(all_open) ELSE "1-65535"
        sdc_arg == IF open_ports # <<>>
                   THEN IF common_open # <<>> THEN join_ports(common_open)
                        ELSE join_ports(all_open)
                   ELSE "22,80,443,8080,8443"
        os_arg == join_ports(sorted_set(
                      {first3(all_open)[k] : k \in 1..Len(first3(all_open))}
                      \cup {OS_DETECT_CLOSED_PORT}))
        os_tail == (IF open_ports # <<>> THEN <<"-p", os_arg>> ELSE <<>>)
                   \o <<"-vv", "--host-timeout=" \o t, "-oX", "-", target>>
        Ok(argv) == [raises |-> FALSE, argv |-> argv]
    IN  IF action_id = "host_reachability"
        THEN Ok(<<nmap_path, "-sn", "-vv", "--host-timeout=" \o t, "-oX", "-", target>>)
        ELSE IF action_id \in _SYN_SCAN_ACTIONS /\ ~use_sudo
        THEN [raises |-> TRUE, argv |-> <<>>]
        ELSE IF action_id = "port_scan"
        THEN IF OrElse(p_arg, "") = "" THEN Ok(<<>>)
             ELSE Ok(<<"sudo", "-n", nmap_path, "-sS", "-p", p_arg, "-T4", "-vv",
                       "--host-timeout", t, "-oX", "-", target>>)
        ELSE IF action_id = "service_detect"
        THEN Ok(<<"sudo", "-n", nmap_path, "-sS", "-sV", "-p", sd_arg, "-T4", "-vv",
                  "--host-timeout", t, "-oX", "-", target>>)
        ELSE IF action_id = "service_detect_common"
        THEN Ok(<<"sudo", "-n", nmap_path, "-sS", "-sV", "-p", sdc_arg, "-T4", "-vv",
                  "--host-timeout", t, "-oX", "-", target>>)
        ELSE IF action_id = "os_fingerprint"
        THEN IF use_sudo THEN Ok(<<"sudo", "-n", nmap_path, "-O">> \o os_tail)
             ELSE Ok(<<nmap_path, "-O">> \o os_tail)
        ELSE Ok(<<>>)

-----------------------------------------------------------------------------
(* guardrails.py *)

\* _norm_str(val)
_norm_str(val) == IF val = None THEN None ELSE OrElse(strip(val), None)

(***************************************************************************)
(* An oracle reply as validate_intent reads it: json = TRUE when a JSON    *)
(* object was extracted from the text, and then intent, range, port_range  *)
(* and scope are the values found under those keys (None when absent).     *)
(***************************************************************************)
Reply(intent, range, port_range, scope) ==
    [json |-> TRUE, intent |-> intent, range |-> range,
     port_range |-> port_range, scope |-> scope]

NoJson ==
    [json |-> FALSE, intent |-> None, range |-> None,
     port_range |-> None, scope |-> None]

\* _norm_params(data)
_norm_params(data) ==
    [range |-> _norm_str(data.range),
     port_range |-> _norm_str(data.port_range),
     scope |-> _norm_str(data.scope)]

\* validate_intent(reply, state, goal_id): action_id = None when the reply is
\* rejected.
validate_intent(reply, st, g) ==
    LET intent == _norm_str(reply.intent)
        params == _norm_params(reply)
        rejected == [action_id |-> None, intent |-> None, params |-> _norm_params(NoJson)]
    IN  IF ~reply.json \/ intent = None THEN rejected
        ELSE LET action_id == intent_to_action_id(intent, params, st, g)
             IN  IF action_id = None THEN rejected
                 ELSE [action_id |-> action_id, intent |-> intent, params |-> params]

-----------------------------------------------------------------------------
(* agent.py: run_scan *)

\* config_loader.get_max_steps() and get_max_nmap_runs() of the run.
max_steps == 7

max_nmap_runs == 3

max_consecutive_rejections == 5

\* The goals a run is started with: one of each (achieved_when,
\* is_port_scan_goal) combination of GOALS.
RunGoals == {"simple_recon", "well_known_tcp", "full_stealth_tcp", "common_ports"}

\* Replies the oracle gives.
OracleReplies ==
    { NoJson,
      Reply("host_reachability", None, None, None),
      Reply("port_scan", "1-1024", None, None),
      Reply("port_scan", "1-65535", None, None),
      Reply("port_scan", ArabicIndicTwo \o ArabicIndicTwo, None, None),
      Reply("Port_Scan", None, " 22,80,443 ", None),
      Reply("port_scan", "22;rm -rf", None, None),
      Reply("service_detect", None, None, "all"),
      Reply("service_detect", None, None, "common"),
      Reply("os_fingerprint", None, None, None),
      Reply("done", None, None, None),
      Reply("nmap_script", "1-1024", None, None) }

\* What run_nmap returns: (xml_stdout, returncode, raw_stderr).
Outcome(xml, returncode, raw) == [xml |-> xml, returncode |-> returncode, raw |-> raw]

\* The return value of every timeout and exception path of run_nmap.
TimedOut == Outcome(EmptyXml, 1, "")

HostUpDoc ==
    Doc(<<Host("up", "10.0.0.5", <<"scanme.example">>, FALSE, <<>>, FALSE, <<>>)>>)

HostDownDoc == Doc(<<Host("down", None, <<>>, FALSE, <<>>, FALSE, <<>>)>>)

PortsDocA ==
    Doc(<<Host("up", "10.0.0.5", <<>>, TRUE,
               <<Port("80", "tcp", "open"), Port("22", "tcp", "closed")>>,
               FALSE, <<>>)>>)

PortsDocB ==
    Doc(<<Host("up", "10.0.0.5", <<>>, TRUE, <<Port("9000", "tcp", "open")>>,
               FALSE, <<>>)>>)

ServicesDoc ==
    Doc(<<Host("up", "10.0.0.5", <<>>, TRUE,
               <<ServicePort("80", "tcp", "open", "http", "nginx", "1.18")>>,
               FALSE, <<>>)>>)

OsDoc ==
    Doc(<<Host("up", "10.0.0.5", <<>>, FALSE, <<>>, TRUE,
               <<OsMatch("Linux 4.15", "80"), OsMatch("Linux 5.4", "95")>>)>>)

\* What the child can make run_nmap return for an action.
NmapOutcomes(action_id) ==
    {TimedOut, Outcome(MalformedXml, 1, "QUITTING")}
    \cup (CASE action_id = "host_reachability" ->
                 {Outcome(HostUpDoc, 0, "Host is up"), Outcome(HostDownDoc, 0, "")}
            [] action_id = "port_scan" ->
                 {Outcome(PortsDocA, 0, "Discovered open port 80/tcp"),
                  Outcome(PortsDocB, 0, "")}
            [] action_id \in {"service_detect", "service_detect_common"} ->
                 {Outcome(ServicesDoc, 0, "Service scan done")}
            [] action_id = "os_fingerprint" -> {Outcome(OsDoc, 0, "OS detection done")}
            [] OTHER -> {})

NoCur == [action_id |-> None, argv |-> <<>>, reply |-> NoJson]

NewIter == [llm |-> "none", verdict |-> "none", invoked |-> 0]

Init ==
    /\ goal_id \in RunGoals
    /\ run_sudo \in BOOLEAN
    /\ nmap_execution \in BOOLEAN
    /\ state = initial
    /\ step_count = 0
    /\ consecutive_rejections = 0
    /\ last_action_id = ""
    /\ stage_outputs = <<>>
    /\ pc = "preflight"
    /\ cur = NoCur
    /\ iter = NewIter
    /\ llm_calls = 0
    /\ nmap_calls = 0
    /\ scan_status = "running"
    /\ proc = NoProc
    /\ app = NoApp

\* run_scan returns (state, state.scans_run, stage_outputs) and post_scan.run
\* sets the status.
Returns == pc' = "returned" /\ scan_status' = "done"

\* An exception leaves run_scan and post_scan.run catches it.
Raises == pc' = "raised" /\ scan_status' = "error"

\* Pre-flight: nmap on PATH and passwordless sudo, when nmap is executed.
Preflight ==
    /\ pc = "preflight"
    /\ \E check_nmap_on_path \in BOOLEAN, check_sudo_nopasswd \in BOOLEAN :
          IF nmap_execution
             /\ (~check_nmap_on_path \/ (run_sudo /\ ~check_sudo_nopasswd))
          THEN Raises
          ELSE pc' = "loop_top" /\ UNCHANGED scan_status
    /\ UNCHANGED <<config, proc, app, state, step_count, consecutive_rejections,
                   last_action_id, stage_outputs, cur, iter, llm_calls,
                   nmap_calls>>

\* Mutant of LoopTop: the goal is not tested at the head of the iteration.
LoopTopWithoutGoalTest ==
    /\ pc = "loop_top"
    /\ step_count' = step_count + 1
    /\ \E elapsed_exceeded \in BOOLEAN :
          IF step_count' > max_steps \/ elapsed_exceeded
          THEN Returns /\ UNCHANGED <<llm_calls, iter>>
          ELSE /\ pc' = "call_llm"
               /\ llm_calls' = llm_calls + 1
               /\ iter' = [NewIter EXCEPT !.llm = "called"]
               /\ UNCHANGED scan_status
    /\ UNCHANGED <<config, proc, app, state, consecutive_rejections, last_action_id,
                   stage_outputs, cur, nmap_calls>>

\* The head of the loop: the step counter, the budgets, the goal, then the
\* oracle is called.
LoopTop ==
    /\ pc = "loop_top"
    /\ step_count' = step_count + 1
    /\ \E elapsed_exceeded \in BOOLEAN :
          IF step_count' > max_steps \/ elapsed_exceeded \/ goal_achieved(state, goal_id)
          THEN Returns /\ UNCHANGED <<llm_calls, iter>>
          ELSE /\ pc' = "call_llm"
               /\ llm_calls' = llm_calls + 1
               /\ iter' = [NewIter EXCEPT !.llm = "called"]
               /\ UNCHANGED scan_status
    /\ UNCHANGED <<config, proc, app, state, consecutive_rejections, last_action_id,
                   stage_outputs, cur, nmap_calls>>

\* Mutant of LLMError: the failed call is retried in place, without going
\* through the head of the loop.
LLMErrorRetriedInPlace ==
    /\ pc = "call_llm"
    /\ llm_calls' = llm_calls + 1
    /\ UNCHANGED <<config, proc, app, state, step_count, consecutive_rejections,
                   last_action_id, stage_outputs, pc, cur, iter, nmap_calls,
                   scan_status>>

\* Mutant of LLMError: the failed call is counted as a rejected reply.
LLMErrorCountedAsRejection ==
    /\ pc = "call_llm"
    /\ pc' = "loop_top"
    /\ iter' = [iter EXCEPT !.llm = "failed"]
    /\ consecutive_rejections' = consecutive_rejections + 1
    /\ UNCHANGED <<config, proc, app, state, step_count, last_action_id, stage_outputs,
                   cur, llm_calls, nmap_calls, scan_status>>

\* Mutant of LLMError: the failed call resets the rejection counter.
LLMErrorResetsRejections ==
    /\ pc = "call_llm"
    /\ pc' = "loop_top"
    /\ iter' = [iter EXCEPT !.llm = "failed"]
    /\ consecutive_rejections' = 0
    /\ UNCHANGED <<config, proc, app, state, step_count, last_action_id, stage_outputs,
                   cur, llm_calls, nmap_calls, scan_status>>

\* chat() raises: `continue`.
LLMError ==
    /\ pc = "call_llm"
    /\ pc' = "loop_top"
    /\ iter' = [iter EXCEPT !.llm = "failed"]
    /\ UNCHANGED <<config, proc, app, state, step_count, consecutive_rejections,
                   last_action_id, stage_outputs, cur, llm_calls,
                   nmap_calls, scan_status>>

\* Mutant of rejection_limit_reached: `>` for `>=`.
rejection_limit_exceeded(n) == n > max_consecutive_rejections

\* `if consecutive_rejections >= max_consecutive_rejections`
rejection_limit_reached(n) == n >= max_consecutive_rejections

\* Mutant of Rejected: a rejected reply falls back to a host check instead
\* of ending the iteration.
RejectedFallsBackToHostCheck(reply) ==
    /\ pc = "call_llm"
    /\ validate_intent(reply, state, goal_id).action_id = None
    /\ consecutive_rejections' = consecutive_rejections + 1
    /\ iter' = [iter EXCEPT !.llm = "replied", !.verdict = "rejected",
                            !.invoked = @ + 1]
    /\ pc' = "run_nmap"
    /\ cur' = [action_id |-> "host_reachability",
               argv |-> get_nmap_argv("host_reachability", Target, run_sudo,
                                      DEFAULT_TIMEOUT, state.open_ports, None).argv,
               reply |-> reply]
    /\ nmap_calls' = nmap_calls + 1
    /\ UNCHANGED <<config, proc, app, state, step_count, last_action_id, stage_outputs,
                   llm_calls, scan_status>>

\* validate_intent returns None.
Rejected(reply) ==
    /\ pc = "call_llm"
    /\ validate_intent(reply, state, goal_id).action_id = None
    /\ consecutive_rejections' = consecutive_rejections + 1
    /\ iter' = [iter EXCEPT !.llm = "replied", !.verdict = "rejected"]
    /\ IF rejection_limit_reached(consecutive_rejections')
       THEN Returns
       ELSE pc' = "loop_top" /\ UNCHANGED scan_status
    /\ UNCHANGED <<config, proc, app, state, step_count, last_action_id, stage_outputs,
                   cur, llm_calls, nmap_calls>>

\* Mutant of nmap_budget_spent: `>` for `>=`.
nmap_budget_exceeded(st) == st.nmap_run_count > max_nmap_runs

\* `if state.nmap_run_count >= max_nmap_runs`
nmap_budget_spent(st) == st.nmap_run_count >= max_nmap_runs

\* `3600 if (action_id == "port_scan" and port_range_arg == "1-65535") else DEFAULT_TIMEOUT`
timeout_for(action_id, port_range_arg) ==
    IF action_id = "port_scan" /\ port_range_arg = "1-65535" THEN 3600
    ELSE DEFAULT_TIMEOUT

\* `(params.get("range") or params.get("port_range")) if action_id == "port_scan" else None`
port_range_arg_of(action_id, params) ==
    IF action_id = "port_scan"
    THEN OrElse(OrElse(params.range, params.port_range), None)
    ELSE None

\* validate_intent returns an action: `done`, the invocation budget, the
\* argv, then either the child is started (run_nmap) or the dry run is
\* recorded.
Accepted(reply) ==
    LET parsed == validate_intent(reply, state, goal_id)
        action_id == parsed.action_id
        port_range_arg == port_range_arg_of(action_id, parsed.params)
        timeout_sec == timeout_for(action_id, port_range_arg)
        compiled == get_nmap_argv(action_id, Target, run_sudo, timeout_sec,
                                  state.open_ports, port_range_arg)
        accepted == [iter EXCEPT !.llm = "replied", !.verdict = "accepted"]
    IN  /\ pc = "call_llm"
        /\ action_id # None
        /\ consecutive_rejections' = 0
        /\ last_action_id' = action_id
        /\ IF action_id = "done" \/ nmap_budget_spent(state)
           THEN /\ Returns
                /\ iter' = accepted
                /\ UNCHANGED <<state, stage_outputs, cur, nmap_calls>>
           ELSE IF compiled.raises
           THEN /\ Raises
                /\ iter' = accepted
                /\ UNCHANGED <<state, stage_outputs, cur, nmap_calls>>
           ELSE IF compiled.argv = <<>>
           THEN /\ pc' = "loop_top"
                /\ iter' = accepted
                /\ UNCHANGED <<state, stage_outputs, cur, nmap_calls, scan_status>>
           ELSE IF nmap_execution
           THEN /\ pc' = "run_nmap"
                /\ cur' = [action_id |-> action_id, argv |-> compiled.argv,
                           reply |-> reply]
                /\ nmap_calls' = nmap_calls + 1
                /\ iter' = [accepted EXCEPT !.invoked = @ + 1]
                /\ UNCHANGED <<state, stage_outputs, scan_status>>
           ELSE /\ pc' = "loop_top"
                /\ state' = [state EXCEPT !.scans_run = Append(@, action_id)]
                /\ stage_outputs' = Append(stage_outputs, action_id)
                /\ iter' = accepted
                /\ UNCHANGED <<cur, nmap_calls, scan_status>>
        /\ UNCHANGED <<config, proc, app, step_count, llm_calls>>

\* Mutant of after_nmap: a failed invocation (non-zero exit) is counted but
\* not recorded in scans_run.
after_nmap_failed_not_recorded(st, action_id, out) ==
    LET counted == [st EXCEPT !.nmap_run_count = @ + 1]
        updated == update_from_nmap_xml(counted, action_id, out.xml)
    IN  IF out.returncode # 0 THEN counted
        ELSE [updated EXCEPT !.scans_run = Append(@, action_id)]

\* The ScanState after run_nmap has returned: the counter, the update from
\* the XML, the append to scans_run.
after_nmap(st, action_id, out) ==
    LET counted == [st EXCEPT !.nmap_run_count = @ + 1]
        updated == update_from_nmap_xml(counted, action_id, out.xml)
    IN  [updated EXCEPT !.scans_run = Append(@, action_id)]

\* run_nmap returns and the rest of the iteration runs.
NmapReturns(out) ==
    /\ pc = "run_nmap"
    /\ out \in NmapOutcomes(cur.action_id)
    /\ state' = after_nmap(state, cur.action_id, out)
    /\ stage_outputs' = Append(stage_outputs, cur.action_id)
    /\ cur' = NoCur
    /\ pc' = "loop_top"
    /\ UNCHANGED <<config, proc, app, step_count, consecutive_rejections, last_action_id,
                   iter, llm_calls, nmap_calls, scan_status>>

AllOutcomes ==
    UNION {NmapOutcomes(a) : a \in {"host_reachability", "port_scan", "service_detect",
                                    "service_detect_common", "os_fingerprint"}}

Next ==
    \/ Preflight
    \/ LoopTop
    \/ LLMError
    \/ \E reply \in OracleReplies : Rejected(reply)
    \/ \E reply \in OracleReplies : Accepted(reply)
    \/ \E out \in AllOutcomes : NmapReturns(out)

Spec == Init /\ [][Next]_vars

\* The worker thread keeps running: the oracle call is bounded by the
\* client timeout, the child wait by the run timeout, the cooling sleep by
\* the configuration.
SpecLive == Spec /\ WF_vars(Next)

-----------------------------------------------------------------------------
(* The state model on its own: any sequence of results applied to a        *)
(* ScanState, as the loop applies them (counter, update_from_nmap_xml,     *)
(* scans_run).                                                             *)

\* Results applied in one sequence.
MaxUpdates == 3

ActionIds ==
    {"host_reachability", "port_scan", "service_detect", "service_detect_common",
     "os_fingerprint"}

InitState ==
    /\ goal_id \in {GOALS[i].id : i \in 1..Len(GOALS)} \cup {None}
    /\ run_sudo = TRUE
    /\ nmap_execution = TRUE
    /\ state = initial
    /\ step_count = 0
    /\ consecutive_rejections = 0
    /\ last_action_id = ""
    /\ stage_outputs = <<>>
    /\ pc = "state_model"
    /\ cur = NoCur
    /\ iter = NewIter
    /\ llm_calls = 0
    /\ nmap_calls = 0
    /\ scan_status = "idle"
    /\ proc = NoProc
    /\ app = NoApp

ApplyResult(action_id, out) ==
    /\ pc = "state_model"
    /\ state.nmap_run_count < MaxUpdates
    /\ out \in NmapOutcomes(action_id)
    /\ state' = after_nmap(state, action_id, out)
    /\ UNCHANGED <<config, proc, app, step_count, consecutive_rejections, last_action_id,
                   stage_outputs, pc,
                   cur, iter, llm_calls, nmap_calls, scan_status>>

NextState == \E action_id \in ActionIds, out \in AllOutcomes : ApplyResult(action_id, out)

SpecState == InitState /\ [][NextState]_vars

-----------------------------------------------------------------------------
(* The validator on its own: validate_intent applied to a reply, a         *)
(* ScanState that results have been applied to, and a goal.                *)

\* Results applied to the ScanState before the reply is validated.
MaxValidatorUpdates == 2

\* Replies given to validate_intent: those of the loop, and the finish and
\* service-detect intents in other spellings and scopes.
ValidatorReplies ==
    OracleReplies
    \cup { Reply("Done", None, None, None),
           Reply(" done ", None, None, None),
           Reply("OS_Fingerprint", None, None, None),
           Reply("service_detect", None, None, None),
           Reply("service_detect", None, None, "fast"),
           Reply("Service_Detect", None, None, " Common "),
           Reply(None, "1-1024", None, "all") }

InitValidator ==
    /\ goal_id \in {GOALS[i].id : i \in 1..Len(GOALS)} \cup {None}
    /\ run_sudo = TRUE
    /\ nmap_execution = TRUE
    /\ state = initial
    /\ step_count = 0
    /\ consecutive_rejections = 0
    /\ last_action_id = ""
    /\ stage_outputs = <<>>
    /\ pc = "validator"
    /\ cur = NoCur
    /\ iter = NewIter
    /\ llm_calls = 0
    /\ nmap_calls = 0
    /\ scan_status = "idle"
    /\ proc = NoProc
    /\ app = NoApp

\* A result is applied to the ScanState, as the loop applies it.
ValidatorState(action_id, out) ==
    /\ pc = "validator"
    /\ state.nmap_run_count < MaxValidatorUpdates
    /\ out \in NmapOutcomes(action_id)
    /\ state' = after_nmap(state, action_id, out)
    /\ UNCHANGED <<config, proc, app, step_count, consecutive_rejections, last_action_id,
                   stage_outputs, pc, cur, iter, llm_calls, nmap_calls,
                   scan_status>>

\* validate_intent(reply, state, goal_id) is called; cur holds the reply and
\* the action id returned (None: rejected).
Validate(reply) ==
    /\ pc = "validator"
    /\ pc' = "validated"
    /\ cur' = [action_id |-> validate_intent(reply, state, goal_id).action_id,
               argv |-> <<>>, reply |-> reply]
    /\ UNCHANGED <<config, proc, app, state, step_count, consecutive_rejections,
                   last_action_id, stage_outputs, iter, llm_calls, nmap_calls,
                   scan_status>>

NextValidator ==
    \/ \E action_id \in ActionIds, out \in AllOutcomes : ValidatorState(action_id, out)
    \/ \E reply \in ValidatorReplies : Validate(reply)

SpecValidator == InitValidator /\ [][NextValidator]_vars

-----------------------------------------------------------------------------
(* The port-range validator on its own: a range parameter is built from    *)
(* pieces, then a port-scan reply that carries it is validated and         *)
(* compiled.                                                               *)

\* Pieces appended to a range.
MaxRangeTokens == 2

\* The ranges the building starts from.
SeedRanges ==
    { "", "22,80,443", "1-1024", "1-65535", "1-70000", "22;rm -rf", "80-22",
      "22,,80", "1-2-3", " 0022", "6553", "1-6553" }

RangeTokens == {"0", "1", "5", "6", ",", "-", " ", ";", ArabicIndicTwo}

InitPortRange ==
    /\ goal_id \in {"simple_recon", "full_stealth_tcp"}
    /\ run_sudo = TRUE
    /\ nmap_execution = TRUE
    /\ state = initial
    /\ step_count = 0
    /\ consecutive_rejections = 0
    /\ last_action_id = ""
    /\ stage_outputs = <<>>
    /\ pc = "port_range"
    /\ \E seed \in SeedRanges :
          cur = [action_id |-> None, argv |-> <<>>,
                 reply |-> Reply("port_scan", seed, None, None)]
    /\ iter = NewIter
    /\ llm_calls = 0
    /\ nmap_calls = 0
    /\ scan_status = "idle"
    /\ proc = NoProc
    /\ app = NoApp

\* One more piece at the end of the range; step_count counts the pieces.
ExtendRange(tok) ==
    /\ pc = "port_range"
    /\ step_count < MaxRangeTokens
    /\ step_count' = step_count + 1
    /\ cur' = [cur EXCEPT !.reply.range = @ \o tok]
    /\ UNCHANGED <<config, proc, app, state, consecutive_rejections, last_action_id,
                   stage_outputs, pc, iter, llm_calls, nmap_calls, scan_status>>

\* The reply is validated and, when accepted, compiled: last_action_id holds
\* what _validate_port_range returns for the range, cur the action id and the
\* argv.
CheckRange ==
    LET parsed == validate_intent(cur.reply, state, goal_id)
        port_range_arg == port_range_arg_of(parsed.action_id, parsed.params)
        compiled == get_nmap_argv(parsed.action_id, Target, run_sudo,
                                  timeout_for(parsed.action_id, port_range_arg),
                                  state.open_ports, port_range_arg)
    IN  /\ pc = "port_range"
        /\ pc' = "port_range_checked"
        /\ last_action_id' = _validate_port_range(cur.reply.range)
        /\ cur' = [cur EXCEPT !.action_id = parsed.action_id,
                              !.argv = IF parsed.action_id = None THEN <<>>
                                       ELSE compiled.argv]
        /\ UNCHANGED <<config, proc, app, state, step_count, consecutive_rejections,
                       stage_outputs, iter, llm_calls, nmap_calls, scan_status>>

NextPortRange ==
    \/ \E tok \in RangeTokens : ExtendRange(tok)
    \/ CheckRange

SpecPortRange == InitPortRange /\ [][NextPortRange]_vars

-----------------------------------------------------------------------------
(* Port-scan results on their own: any sequence of port-scan outputs       *)
(* applied to a ScanState.                                                 *)

\* Port-scan results applied in one sequence.
MaxPortResults == 3

\* A document with one host and these port elements.
PortsDoc(ports) == Doc(<<Host("up", "10.0.0.5", <<>>, TRUE, ports, FALSE, <<>>)>>)

\* What the child writes for a port scan.
PortScanDocs ==
    { EmptyXml, MalformedXml,
      PortsDoc(<<Port("443", "tcp", "open"), Port("80", "tcp", "open"),
                 Port("80", "tcp", "open"), Port("22", "tcp", "closed")>>),
      PortsDoc(<<Port("53", "udp", "open"), Port("22", "tcp", "open")>>),
      PortsDoc(<<Port("8080", "TCP", " Open "), Port("80", "tcp", "open")>>),
      PortsDoc(<<Port("21", None, "open"), Port("53", "tcp", "filtered")>>),
      PortsDoc(<<Port("65535", "tcp", "open"), Port("1", "udp", "open")>>),
      PortsDoc(<<Port("70000", "tcp", "open")>>),
      PortsDoc(<<Port("0", "tcp", "open"), Port("x", "tcp", "open")>>),
      PortsDoc(<<Port("132", "sctp", "open")>>) }

InitPorts ==
    /\ goal_id = "full_stealth_tcp"
    /\ run_sudo = TRUE
    /\ nmap_execution = TRUE
    /\ state = initial
    /\ step_count = 0
    /\ consecutive_rejections = 0
    /\ last_action_id = ""
    /\ stage_outputs = <<>>
    /\ pc = "port_results"
    /\ cur = NoCur
    /\ iter = NewIter
    /\ llm_calls = 0
    /\ nmap_calls = 0
    /\ scan_status = "idle"
    /\ proc = NoProc
    /\ app = NoApp

\* One port-scan result is applied, as the loop applies it.
ApplyPortScan(xml) ==
    /\ pc = "port_results"
    /\ state.nmap_run_count < MaxPortResults
    /\ state' = after_nmap(state, "port_scan", Outcome(xml, 0, ""))
    /\ UNCHANGED <<config, proc, app, step_count, consecutive_rejections, last_action_id,
                   stage_outputs, pc, cur, iter, llm_calls, nmap_calls,
                   scan_status>>

NextPorts == \E xml \in PortScanDocs : ApplyPortScan(xml)

SpecPorts == InitPorts /\ [][NextPorts]_vars

-----------------------------------------------------------------------------
(* Properties *)

\* The port-range grammar: a non-empty comma-separated list of tokens, each
\* a port 1..65535 or low-high with 1 <= low <= high <= 65535.
IsPortNumber(d) ==
    /\ d # ""
    /\ \A i \in 1..Len(d) : SubSeq(d, i, i) \in AsciiDigits
    /\ DigitsValue(d, 0) >= 1
    /\ DigitsValue(d, 0) <= 65535

IsPortToken(tok) ==
    \/ IsPortNumber(tok)
    \/ \E i \in 1..Len(tok) :
          /\ SubSeq(tok, i, i) = "-"
          /\ IsPortNumber(SubSeq(tok, 1, i - 1))
          /\ IsPortNumber(SubSeq(tok, i + 1, Len(tok)))
          /\ DigitsValue(SubSeq(tok, 1, i - 1), 0)
                <= DigitsValue(SubSeq(tok, i + 1, Len(tok)), 0)

InPortRangeGrammar(s) ==
    s # "" /\ \A k \in 1..Len(split(s, ",")) : IsPortToken(split(s, ",")[k])

\* The argument that follows -p in an argv.
PortArgument(argv) == argv[(CHOOSE i \in 1..Len(argv) : argv[i] = "-p") + 1]

\* The intent an allow-listed action id is proposed with.
IntentOfAction(action_id) ==
    IF action_id = "service_detect_common" THEN "service_detect" ELSE action_id

\* C1 as claimed: every external-tool invocation follows, in its iteration, a reply
\* that the validator accepted; its action id is allow-listed and is the one
\* the reply proposes, at most one child is started per iteration, none after
\* a failed oracle call or a rejected reply, and the -p argument of a port
\* scan is the reply's range and is in the port-range grammar.
C1_OnlyValidatedInvocations ==
    /\ iter.invoked <= 1
    /\ iter.invoked > 0 => iter.llm = "replied" /\ iter.verdict = "accepted"
    /\ ~nmap_execution => nmap_calls = 0
    /\ nmap_execution =>
          nmap_calls = state.nmap_run_count + (IF pc = "run_nmap" THEN 1 ELSE 0)
    /\ pc = "run_nmap" =>
          /\ iter.invoked = 1
          /\ cur.action_id \in ActionIds
          /\ cur.reply.json
          /\ lower(strip(cur.reply.intent)) = IntentOfAction(cur.action_id)
          /\ cur.argv # <<>>
          /\ cur.argv[Len(cur.argv)] = Target
          /\ cur.action_id = "port_scan" =>
                /\ InPortRangeGrammar(PortArgument(cur.argv))
                /\ PortArgument(cur.argv)
                      = strip(OrElse(cur.reply.range, cur.reply.port_range))

\* C2 as claimed: once goal_achieved is true it stays true after any
\* further result is applied to the ScanState.
C2_GoalAchievedMonotonic ==
    [][goal_achieved(state, goal_id) => goal_achieved(state', goal_id)]_vars

\* C3: with the fifth consecutive rejection the run has returned, in that
\* iteration (no later oracle call, no child started in it) and within the
\* iteration budget.
C3_StopsAtFifthRejection ==
    /\ consecutive_rejections <= max_consecutive_rejections
    /\ consecutive_rejections = max_consecutive_rejections =>
          /\ pc = "returned"
          /\ iter.verdict = "rejected"
          /\ iter.invoked = 0
          /\ llm_calls = step_count
          /\ step_count <= max_steps

\* C3 witness: the run stopped on five rejections, with oracle failures in
\* between.
C3_Witness ==
    /\ pc = "returned"
    /\ consecutive_rejections = max_consecutive_rejections
    /\ step_count > max_consecutive_rejections

\* C4 as claimed: a run stopped by the rejection threshold does not report the
\* status of a normally completed run.
C4_AbortedIsDistinct ==
    (pc = "returned" /\ consecutive_rejections >= max_consecutive_rejections)
        => scan_status # "done"

\* C5: the oracle is called at most max_steps times, one call per step, and
\* run_scan is eventually left.
C5_LoopTerminates ==
    /\ [](llm_calls <= max_steps /\ llm_calls <= step_count)
    /\ <>(pc \in {"returned", "raised"})

\* C5 witness: the run returned after using every step on oracle calls.
C5_Witness == pc = "returned" /\ llm_calls = max_steps /\ step_count = max_steps + 1

\* C6: the invocation counter never exceeds max_nmap_runs, no child is
\* started once it is reached, and a run whose counter has reached it does not
\* end with an error.
C6_InvocationBudget ==
    /\ state.nmap_run_count <= max_nmap_runs
    /\ nmap_calls <= max_nmap_runs
    /\ pc = "run_nmap" => state.nmap_run_count < max_nmap_runs
    /\ state.nmap_run_count >= max_nmap_runs => pc # "raised" /\ scan_status # "error"

\* C6 witness: the run returned because an accepted action found the budget
\* spent.
C6_Witness ==
    /\ pc = "returned"
    /\ state.nmap_run_count = max_nmap_runs
    /\ iter.verdict = "accepted"
    /\ last_action_id # "done"
    /\ ~goal_achieved(state, goal_id)

\* C7: an iteration whose oracle call fails changes neither the ScanState nor
\* the stage outputs nor the rejection counter, validates nothing, starts no
\* child, and goes back to the head of the loop.
C7_OracleFailureChangesNothing ==
    [][(iter.llm = "called" /\ iter'.llm = "failed") =>
          /\ state' = state
          /\ stage_outputs' = stage_outputs
          /\ consecutive_rejections' = consecutive_rejections
          /\ nmap_calls' = nmap_calls
          /\ iter'.verdict = "none"
          /\ iter'.invoked = 0
          /\ pc' = "loop_top"
          /\ scan_status' = scan_status]_vars

\* C7 witness: an oracle call failed after rejections had been counted and
\* results recorded.
C7_Witness ==
    /\ pc = "loop_top"
    /\ iter.llm = "failed"
    /\ consecutive_rejections > 0
    /\ state.scans_run # <<>>

C9_CompileErrorAtPreflight ==
    (~run_sudo /\ pc = "raised") => state.nmap_run_count = 0 /\ state.scans_run = <<>>

\* C10 as claimed: host_reachability, once up or no_response, never changes.
C10_ReachabilityNeverReverts ==
    [][state.host_reachability # "unknown"
          => state'.host_reachability = state.host_reachability]_vars

\* What the goal modes are stated over.
port_scan_run == In("port_scan", state.scans_run)

service_detect_run ==
    In("service_detect", state.scans_run) \/ In("service_detect_common", state.scans_run)

\* C11 as claimed: in mode full, goal_achieved is true iff reachability is
\* known (not required under a goal that forbids host discovery) and either
\* the host gave no response or a port scan, a service detection and the OS
\* fingerprint have all been run.
C11_FullModeAchieved ==
    achieved_when_of(goal_id) = "full" =>
        (goal_achieved(state, goal_id) <=>
            /\ is_port_scan_goal(goal_id) \/ state.host_reachability # "unknown"
            /\ \/ state.host_reachability = "no_response"
               \/ (port_scan_run /\ service_detect_run /\ state.os_fingerprint_done))

\* C12: in mode port_scan_only, goal_achieved is true iff scans_run holds a
\* port_scan, whatever the reachability.
C12_PortScanOnlyAchieved ==
    achieved_when_of(goal_id) = "port_scan_only" =>
        (goal_achieved(state, goal_id) <=> port_scan_run)

\* C12 witness: full_stealth_tcp is achieved after the one port scan, the
\* reachability still unknown.
C12_Witness ==
    /\ goal_id = "full_stealth_tcp"
    /\ state.scans_run = <<"port_scan">>
    /\ state.host_reachability = "unknown"
    /\ goal_achieved(state, goal_id)

\* C13: in mode port_scan_and_services, goal_achieved is true iff scans_run
\* holds a port_scan and a service detection of either scope, whatever the
\* reachability and os_fingerprint_done.
C13_PortScanAndServicesAchieved ==
    achieved_when_of(goal_id) = "port_scan_and_services" =>
        (goal_achieved(state, goal_id) <=> (port_scan_run /\ service_detect_run))

\* C13 witness: common_ports is achieved with the host check unanswered and
\* no OS fingerprint.
C13_Witness ==
    /\ goal_id = "common_ports"
    /\ state.host_reachability = "no_response"
    /\ ~state.os_fingerprint_done
    /\ In("service_detect_common", state.scans_run)
    /\ goal_achieved(state, goal_id)

\* The kind a reply declares, after trimming and case normalization; None
\* when the reply has no JSON object or no intent.
KindOf(reply) ==
    IF ~reply.json \/ reply.intent = None THEN None
    ELSE lower(strip(reply.intent))

\* C14: when the goal is achieved, a reply whose kind is not finish is
\* rejected, whatever the kind and the parameters.
C14_AchievedRejectsAllButFinish ==
    (pc = "validated" /\ goal_achieved(state, goal_id) /\ KindOf(cur.reply) # "done")
        => cur.action_id = None

\* C14 witness: a port scan with a valid range is rejected because the goal
\* is achieved.
C14_Witness ==
    /\ pc = "validated"
    /\ goal_achieved(state, goal_id)
    /\ cur.reply = Reply("port_scan", "1-1024", None, None)
    /\ cur.action_id = None

\* C15 as claimed: a reply whose kind is finish is accepted in every state,
\* the goal achieved or not.
C15_FinishAlwaysAccepted ==
    (pc = "validated" /\ KindOf(cur.reply) = "done") => cur.action_id = "done"

\* The scope a service-detect reply declares, absent meaning all.
ScopeOf(reply) == lower(strip(OrElse(reply.scope, "all")))

\* C17 as claimed: a service-detect reply is rejected when no open port is
\* known, with scope common it is rejected unless a known open port is a
\* common port, and it is accepted only with scope all or common.
C17_ServiceDetectRules ==
    (pc = "validated" /\ KindOf(cur.reply) = "service_detect") =>
        /\ state.open_ports = <<>> => cur.action_id = None
        /\ (ScopeOf(cur.reply) = "common" /\ ~any_common_open(state.open_ports))
              => cur.action_id = None
        /\ cur.action_id # None => ScopeOf(cur.reply) \in {"all", "common"}

\* C16 as claimed: the port-range validator accepts a string iff it is in
\* the port-range grammar (surrounding blanks aside); it accepts "22,80,443",
\* "1-1024" and "1-65535" and rejects "1-70000", "22;rm -rf", "", "80-22",
\* an empty token and a token with two hyphens; and a port-scan reply is
\* accepted iff its range is.
C16_PortRangeGrammar ==
    pc = "port_range_checked" =>
        /\ (last_action_id # None) <=> InPortRangeGrammar(strip(cur.reply.range))
        /\ (cur.action_id = "port_scan") <=> (last_action_id # None)
        /\ cur.reply.range \in {"22,80,443", "1-1024", "1-65535"}
              => last_action_id = cur.reply.range
        /\ cur.reply.range \in {"1-70000", "22;rm -rf", "", "80-22", "22,,80", "1-2-3"}
              => last_action_id = None

\* C18: under a goal of PORT_SCAN_GOAL_IDS a host-check reply is rejected
\* whenever the oracle is asked, no host check is started or recorded, and
\* host_reachability stays unknown.
C18_NoHostCheckUnderPortScanGoal ==
    goal_id \in PORT_SCAN_GOAL_IDS =>
        /\ state.host_reachability = "unknown"
        /\ ~In("host_reachability", state.scans_run)
        /\ ~In("host_reachability", stage_outputs)
        /\ cur.action_id # "host_reachability"
        /\ pc = "call_llm" =>
              \A reply \in OracleReplies :
                  KindOf(reply) = "host_reachability"
                      => validate_intent(reply, state, goal_id).action_id = None

\* C18 witness: a run under a port-scan goal is at the oracle again after a
\* rejected reply, with a port scan and a service detection recorded.
C18_Witness ==
    /\ goal_id \in PORT_SCAN_GOAL_IDS
    /\ pc = "call_llm"
    /\ consecutive_rejections > 0
    /\ Len(state.scans_run) >= 2
    /\ state.open_ports # <<>>

\* C19: an iteration whose reply is rejected leaves the ScanState, the stage
\* outputs, the invocation in progress and the last accepted action as they
\* were, starts no child, and adds one to the consecutive-rejection counter.
C19_RejectionChangesNothing ==
    [][(pc = "call_llm" /\ iter'.verdict = "rejected") =>
          /\ state' = state
          /\ stage_outputs' = stage_outputs
          /\ cur' = cur
          /\ last_action_id' = last_action_id
          /\ nmap_calls' = nmap_calls
          /\ llm_calls' = llm_calls
          /\ iter'.invoked = 0
          /\ consecutive_rejections' = consecutive_rejections + 1
          /\ pc' \in {"loop_top", "returned"}]_vars

\* C19 witness: a second reply in a row was rejected with facts and results
\* already in the ScanState.
C19_Witness ==
    /\ pc = "loop_top"
    /\ iter.verdict = "rejected"
    /\ consecutive_rejections = 2
    /\ state.open_ports # <<>>
    /\ state.scans_run # <<>>

\* (protocol, port) order: a strictly before b.
Before(a, b) == StrLess(a[2], b[2]) \/ (a[2] = b[2] /\ a[1] < b[1])

\* C20 as claimed: after any sequence of port-scan results, open_ports has
\* no duplicate (port, protocol), is sorted by (protocol, port), and every
\* entry has a port in 1..65535 and protocol tcp or udp.
C20_OpenPortsWellFormed ==
    /\ \A i, j \in 1..Len(state.open_ports) :
          i < j => Before(state.open_ports[i], state.open_ports[j])
    /\ \A i \in 1..Len(state.open_ports) :
          /\ state.open_ports[i][1] \in 1..65535
          /\ state.open_ports[i][2] \in {"tcp", "udp"}

-----------------------------------------------------------------------------
(* update_from_nmap_xml on its own: any sequence of structured outputs     *)
(* applied to a ScanState under any action id, without the loop's          *)
(* bookkeeping.                                                            *)

\* Structured outputs applied in one sequence.
MaxResults == 3

\* One host, status up, IPv4 address 10.0.0.5, one port 80/tcp open.
UpWithPort80Doc == PortsDoc(<<Port("80", "tcp", "open")>>)

\* A document whose host carries these osmatch candidates.
OsMatchesDoc(osmatches) ==
    Doc(<<Host("up", "10.0.0.5", <<>>, FALSE, <<>>, TRUE, osmatches)>>)

\* Two host elements, each listing 80/tcp.
TwoHostsServicesDoc ==
    Doc(<<Host("up", "10.0.0.5", <<>>, TRUE,
               <<ServicePort("22", "tcp", "open", "ssh", "OpenSSH", "8.2"),
                 ServicePort("80", "tcp", "open", "http", "nginx", "1.18")>>,
               FALSE, <<>>),
          Host("up", "10.0.0.6", <<>>, TRUE,
               <<ServicePort("80", "tcp", "open", "http", "Apache", "2.4")>>,
               FALSE, <<>>)>>)

\* What the child can write on stdout.
ResultDocs ==
    { EmptyXml, MalformedXml, HostDownDoc, UpWithPort80Doc,
      PortsDoc(<<Port("443", "tcp", "open"), Port("80", "tcp", "open"),
                 Port("80", "tcp", "open"), Port("22", "tcp", "closed")>>),
      OsDoc,
      OsMatchesDoc(<<OsMatch("Linux 5.4", "95"), OsMatch("Linux 4.15", "80")>>),
      OsMatchesDoc(<<OsMatch("FreeBSD 12", "60")>>),
      OsMatchesDoc(<<OsMatch(" ", "99"), OsMatch("Windows 10", "x")>>),
      ServicesDoc,
      TwoHostsServicesDoc }

\* The application last made: its action id and its structured output.
Applied(action_id, xml) ==
    [action_id |-> action_id, argv |-> <<>>, reply |-> NoJson, xml |-> xml]

InitResults ==
    /\ goal_id = "full_stealth_tcp"
    /\ run_sudo = TRUE
    /\ nmap_execution = TRUE
    /\ state = initial
    /\ step_count = 0
    /\ consecutive_rejections = 0
    /\ last_action_id = ""
    /\ stage_outputs = <<>>
    /\ pc = "results"
    /\ cur = Applied(None, EmptyXml)
    /\ iter = NewIter
    /\ llm_calls = 0
    /\ nmap_calls = 0
    /\ scan_status = "idle"
    /\ proc = NoProc
    /\ app = NoApp

\* update_from_nmap_xml(state, action_id, xml); step_count counts the calls.
ApplyAs(action_id, xml) ==
    /\ pc = "results"
    /\ step_count < MaxResults
    /\ state' = update_from_nmap_xml(state, action_id, xml)
    /\ cur' = Applied(action_id, xml)
    /\ step_count' = step_count + 1
    /\ UNCHANGED <<config, proc, app, consecutive_rejections, last_action_id,
                   stage_outputs, pc, iter, llm_calls, nmap_calls, scan_status>>

NextResults == \E action_id \in ActionIds, xml \in ResultDocs : ApplyAs(action_id, xml)

SpecResults == InitResults /\ [][NextResults]_vars

\* C21: applying the same port-scan result a second time changes nothing:
\* for every ScanState the sequence reaches and every result, the state after
\* the second application equals the state after the first; and a port-scan
\* application changes no field but open_ports.
C21_PortScanIdempotent ==
    /\ [](pc = "results" =>
            \A xml \in ResultDocs :
                LET once == update_from_nmap_xml(state, "port_scan", xml)
                    twice == update_from_nmap_xml(once, "port_scan", xml)
                IN  /\ twice = once
                    /\ Len(twice.open_ports) = Len(once.open_ports)
                    /\ once = [state EXCEPT !.open_ports = once.open_ports])
    /\ [][(pc = "results" /\ cur.action_id = "port_scan"
           /\ cur' = cur) => state' = state]_vars

\* C21 witness: a port-scan result with several open ports has been applied to
\* a state that already held results, and applying it again is possible.
C21_Witness ==
    /\ pc = "results"
    /\ cur.action_id = "port_scan"
    /\ Len(state.open_ports) >= 2
    /\ state.host_reachability = "up"
    /\ step_count < MaxResults

\* C22 as claimed: one application of the result with a host up at 10.0.0.5
\* and port 80/tcp open to an initial ScanState yields reachability up, the
\* address and open_ports = [(80, tcp)].
C22_SingleResultYieldsAll ==
    (/\ pc = "results"
     /\ step_count = 1
     /\ cur.xml = UpWithPort80Doc
     /\ cur.action_id \in {"host_reachability", "port_scan"})
    => /\ state.host_reachability = "up"
       /\ state.host_addr = "10.0.0.5"
       /\ state.open_ports = << <<80, "tcp">> >>

\* The osmatch candidates update_from_nmap_xml reads from a document: those
\* of the first host with an os element.
CandidatesOf(xml) ==
    IF xml.kind = "doc" /\ \E i \in 1..Len(xml.hosts) : xml.hosts[i].has_os
    THEN xml.hosts[CHOOSE i \in 1..Len(xml.hosts) :
                      /\ xml.hosts[i].has_os
                      /\ \A j \in 1..(i - 1) : ~xml.hosts[j].has_os].osmatches
    ELSE <<>>

\* The accuracy of a candidate as an integer (0 when absent or not a number).
AccuracyOf(m) ==
    LET parsed == int(OrElse(m.accuracy, "0"))
    IN  IF parsed.ok THEN parsed.val ELSE 0

\* The named candidates of a document.
NamedCandidates(xml) ==
    {CandidatesOf(xml)[i] : i \in {k \in 1..Len(CandidatesOf(xml)) :
                                      strip(OrElse(CandidatesOf(xml)[k].name, "")) # ""}}

\* The accuracy with which a name is reported by the outputs of ResultDocs.
AccuracyOfName(name) ==
    CHOOSE a \in 0..100 :
        \E xml \in ResultDocs : \E m \in NamedCandidates(xml) :
            strip(m.name) = name /\ AccuracyOf(m) = a

\* First half of C23: after a fingerprinting result with named candidates is
\* applied, os_guess is the name of a candidate of greatest accuracy.
C23_BestOfResult ==
    (/\ pc = "results"
     /\ cur.action_id = "os_fingerprint"
     /\ NamedCandidates(cur.xml) # {})
    => \E m \in NamedCandidates(cur.xml) :
          /\ state.os_guess = strip(m.name)
          /\ \A n \in NamedCandidates(cur.xml) : AccuracyOf(n) <= AccuracyOf(m)

\* C23 as claimed: os_guess is the best named candidate of the result applied,
\* and a guess already kept is replaced only by a candidate of strictly higher
\* accuracy.
C23_OsGuessKeepsHighest ==
    /\ [](C23_BestOfResult)
    /\ [][(pc = "results" /\ state.os_guess # None /\ state'.os_guess # state.os_guess)
          => /\ state'.os_guess # None
             /\ AccuracyOfName(state'.os_guess) > AccuracyOfName(state.os_guess)]_vars

\* C27: an empty or malformed output applied for a host-discovery action sets
\* host_reachability to no_response and nothing else; for a port-scan or
\* service-detect action it leaves the ScanState as it was; for an
\* os-fingerprint action it sets os_fingerprint_done and nothing else.  The
\* application always yields a ScanState (it does not raise).
C27_NoDataDegrades ==
    [][(/\ pc = "results"
        /\ step_count' = step_count + 1
        /\ cur'.xml \in {EmptyXml, MalformedXml})
       => /\ DOMAIN state' = DOMAIN initial
          /\ cur'.action_id = "host_reachability"
                => state' = [state EXCEPT !.host_reachability = "no_response"]
          /\ cur'.action_id \in {"port_scan", "service_detect", "service_detect_common"}
                => state' = state
          /\ cur'.action_id = "os_fingerprint"
                => state' = [state EXCEPT !.os_fingerprint_done = TRUE]]_vars

\* C27 witness: a malformed output has been applied for a host-discovery
\* action to a state that held ports, services and a reachable host.
C27_Witness ==
    /\ pc = "results"
    /\ cur.action_id = "host_reachability"
    /\ cur.xml = MalformedXml
    /\ state.host_reachability = "no_response"
    /\ state.host_addr = "10.0.0.5"
    /\ state.open_ports # <<>>

\* How many entries of a services list are for this port and protocol.
CountKey(l, port, proto) ==
    Cardinality({i \in 1..Len(l) : l[i][1] = port /\ l[i][2] = proto})

\* How many times an entry occurs in a list.
CountEntry(l, e) == Cardinality({i \in 1..Len(l) : l[i] = e})

\* C30 as claimed: a service-detect application keeps every entry services
\* held, leaves services sorted by (protocol, port), and adds at most one
\* entry for any (port, protocol).
C30_ServicesAppendOnly ==
    [][(/\ pc = "results"
        /\ step_count' = step_count + 1
        /\ cur'.action_id \in {"service_detect", "service_detect_common"})
       => /\ \A i \in 1..Len(state.services) :
                CountEntry(state'.services, state.services[i])
                    >= CountEntry(state.services, state.services[i])
          /\ \A i, j \in 1..Len(state'.services) :
                i < j => ~KeyLess(state'.services[j], state'.services[i])
          /\ \A i \in 1..Len(state'.services) :
                CountKey(state'.services, state'.services[i][1], state'.services[i][2])
                    <= CountKey(state.services, state'.services[i][1],
                                state'.services[i][2]) + 1]_vars

\* C28: the rejection counter counts the rejected replies since the last
\* accepted one: a rejected reply adds one, an accepted reply sets it to 0, a
\* failed oracle call and every other step leave it alone; it never passes
\* the limit, and at the limit the run has stopped.
C28_RejectionCounter ==
    /\ [](/\ consecutive_rejections \in 0..max_consecutive_rejections
          /\ consecutive_rejections = max_consecutive_rejections => pc = "returned")
    /\ [][/\ (pc = "call_llm" /\ iter'.verdict = "rejected")
                => consecutive_rejections' = consecutive_rejections + 1
          /\ (pc = "call_llm" /\ iter'.verdict = "accepted")
                => consecutive_rejections' = 0
          /\ (pc = "call_llm" /\ iter'.llm = "failed")
                => consecutive_rejections' = consecutive_rejections
          /\ pc # "call_llm"
                => consecutive_rejections' = consecutive_rejections]_vars

\* C28 witness: the run stopped at the fifth rejection although two oracle
\* calls of the seven failed and no reply was ever accepted.
C28_Witness ==
    /\ pc = "returned"
    /\ consecutive_rejections = max_consecutive_rejections
    /\ llm_calls = max_consecutive_rejections + 2
    /\ last_action_id = ""
    /\ iter.verdict = "rejected"

\* C29 as claimed: os_fingerprint_done is never reset, and at every iteration
\* boundary it is true exactly when scans_run contains os_fingerprint, with
\* and without execution.
C29_FingerprintDoneIffRun ==
    /\ [](pc = "loop_top" =>
            (state.os_fingerprint_done <=> In("os_fingerprint", state.scans_run)))
    /\ [][state.os_fingerprint_done => state'.os_fingerprint_done]_vars

-----------------------------------------------------------------------------
(* nmap_runner.py: one run_nmap call, the child it starts, the wall clock  *)
(* of the child wait and, in the streaming modes, the two reader threads.  *)
(* proc.mode is "run" (no stream callback: subprocess.run), "pipe"         *)
(* (_run_nmap_stream_pipe) or "pty" (_run_nmap_stream_pty); proc.at is the *)
(* position of the call; proc.elapsed is the time waited on the child in   *)
(* ticks.                                                                  *)

\* run_timeout (timeout_sec + 60 seconds) in clock ticks.
RunTimeoutTicks == 2

Modes == {"run", "pipe", "pty"}

\* No value returned yet.
NoOutcome == Outcome(EmptyXml, -1, "")

NewProc(mode) ==
    [ mode |-> mode, at |-> "start", child |-> "none", elapsed |-> 0,
      t1 |-> "none", t2 |-> "none", joined |-> {}, closed |-> {},
      timed_out |-> FALSE, result |-> NoOutcome ]

\* The invocation run_nmap compiles for an action (line 29).
Invocation(action_id, use_sudo) ==
    [ action_id |-> action_id,
      argv |-> get_nmap_argv(action_id, Target, use_sudo, DEFAULT_TIMEOUT, <<>>,
                             IF action_id = "port_scan" THEN "1-1024" ELSE None).argv,
      reply |-> NoJson ]

\* argv[0] == "sudo": the child is sudo, which runs as root.
under_sudo == cur.argv # <<>> /\ cur.argv[1] = "sudo"

InitEngine ==
    /\ goal_id = "full_stealth_tcp"
    /\ run_sudo \in BOOLEAN
    /\ nmap_execution = TRUE
    /\ state = initial
    /\ step_count = 1
    /\ consecutive_rejections = 0
    /\ last_action_id = ""
    /\ stage_outputs = <<>>
    /\ pc = "engine"
    /\ cur \in {Invocation(a, run_sudo) :
                    a \in {"host_reachability", "os_fingerprint"}
                          \cup (IF run_sudo THEN {"port_scan"} ELSE {})}
    /\ iter = NewIter
    /\ llm_calls = 0
    /\ nmap_calls = 0
    /\ scan_status = "running"
    /\ proc \in {NewProc(mode) : mode \in Modes}
    /\ app = NoApp

EngineUnchanged ==
    UNCHANGED <<config, app, state, step_count, consecutive_rejections,
                last_action_id, stage_outputs, pc, cur, iter, llm_calls,
                nmap_calls, scan_status>>

\* subprocess.run / subprocess.Popen starts the child; the streaming modes
\* start the two daemon reader threads.
StartChild ==
    /\ pc = "engine"
    /\ proc.at = "start"
    /\ proc' = [proc EXCEPT !.at = "wait", !.child = "running",
                            !.t1 = IF proc.mode = "run" THEN "none" ELSE "reading",
                            !.t2 = IF proc.mode = "run" THEN "none" ELSE "reading"]
    /\ EngineUnchanged

\* Time passes while the call waits on a running child: up to run_timeout in
\* the timed wait, and on in the wait of Popen.__exit__, which has no timeout.
Tick ==
    /\ pc = "engine"
    /\ proc.child = "running"
    /\ \/ proc.at = "wait" /\ proc.elapsed < RunTimeoutTicks
       \/ proc.at = "exit_wait" /\ proc.elapsed < RunTimeoutTicks + 1
    /\ proc' = [proc EXCEPT !.elapsed = @ + 1]
    /\ EngineUnchanged

\* The child ends by itself.
ChildExits ==
    /\ pc = "engine"
    /\ proc.child = "running"
    /\ proc.at \in {"wait", "timeout_handler", "exit_wait"}
    /\ proc' = [proc EXCEPT !.child = "exited"]
    /\ EngineUnchanged

\* A reader thread reaches the end of its stream: the child is gone, or (the
\* PTY reader) the master side has been closed.
ReaderEnds(t) ==
    /\ pc = "engine"
    /\ proc[t] = "reading"
    /\ \/ proc.child \in {"exited", "killed"}
       \/ t = "t2" /\ proc.mode = "pty" /\ "master_fd" \in proc.closed
    /\ proc' = [proc EXCEPT ![t] = "finished"]
    /\ EngineUnchanged

\* The timed wait returns because the child has exited: subprocess.run
\* returns its output; the streaming modes close the PTY master, join the
\* readers for at most 10 and 5 seconds, and return what was read.
WaitReturns(out) ==
    /\ pc = "engine"
    /\ proc.at = "wait"
    /\ proc.child = "exited"
    /\ out \in NmapOutcomes(cur.action_id) \ {TimedOut}
    /\ proc' = [proc EXCEPT
                   !.at = "returned",
                   !.closed = IF proc.mode = "pty" THEN @ \cup {"master_fd"} ELSE @,
                   !.joined = IF proc.mode = "run" THEN @ ELSE {"t1", "t2"},
                   !.result = out]
    /\ EngineUnchanged

\* The timed wait raises TimeoutExpired.
WaitTimesOut ==
    /\ pc = "engine"
    /\ proc.at = "wait"
    /\ proc.child = "running"
    /\ proc.elapsed = RunTimeoutTicks
    /\ proc' = [proc EXCEPT !.at = "timeout_handler", !.timed_out = TRUE]
    /\ EngineUnchanged

\* The TimeoutExpired handler: kill the child if it still runs, wait for it,
\* (PTY) close the master, return the timeout value.  os.kill succeeds, or
\* fails with PermissionError when the child is sudo and the backend is not
\* root: in the streaming modes the error leaves the handler and run_nmap;
\* inside subprocess.run it leaves the Popen context manager, whose __exit__
\* waits for the child without a timeout.
TimeoutHandler(permitted) ==
    /\ pc = "engine"
    /\ proc.at = "timeout_handler"
    /\ permitted \in (IF under_sudo THEN BOOLEAN ELSE {TRUE})
    /\ proc' =
          IF proc.child # "running" \/ permitted
          THEN [proc EXCEPT
                   !.at = "returned",
                   !.child = IF proc.child = "running" THEN "killed" ELSE @,
                   !.closed = IF proc.mode = "pty" THEN @ \cup {"master_fd"} ELSE @,
                   !.result = TimedOut]
          ELSE IF proc.mode = "run"
          THEN [proc EXCEPT !.at = "exit_wait"]
          ELSE [proc EXCEPT !.at = "raised"]
    /\ EngineUnchanged

\* Popen.__exit__ returns once the child has exited; the error reaches
\* `except Exception` of run_nmap, which returns the timeout value.
ExitWaitReturns ==
    /\ pc = "engine"
    /\ proc.at = "exit_wait"
    /\ proc.child = "exited"
    /\ proc' = [proc EXCEPT !.at = "returned", !.result = TimedOut]
    /\ EngineUnchanged

NextEngine ==
    \/ StartChild
    \/ Tick
    \/ ChildExits
    \/ \E t \in {"t1", "t2"} : ReaderEnds(t)
    \/ \E out \in AllOutcomes : WaitReturns(out)
    \/ WaitTimesOut
    \/ \E permitted \in BOOLEAN : TimeoutHandler(permitted)
    \/ ExitWaitReturns

SpecEngine == InitEngine /\ [][NextEngine]_vars

\* C24 as claimed: in each of the three modes run_nmap never raises, never
\* waits on a running child longer than run_timeout, and after a timeout
\* returns the empty output with a non-zero status with the child gone.
C24_TimeoutEnforced ==
    pc = "engine" =>
        /\ proc.at # "raised"
        /\ (proc.at \in {"wait", "timeout_handler", "exit_wait"} /\ proc.child = "running")
              => proc.elapsed <= RunTimeoutTicks
        /\ (proc.at = "returned" /\ proc.timed_out)
              => /\ proc.child \in {"killed", "exited"}
                 /\ proc.result.xml = EmptyXml
                 /\ proc.result.returncode # 0

\* C25 as claimed: when a streaming call returns after a timeout, both
\* reader threads have been joined.
C25_ReadersJoinedOnTimeout ==
    (/\ pc = "engine"
     /\ proc.mode \in {"pipe", "pty"}
     /\ proc.timed_out
     /\ proc.at = "returned")
    => proc.joined = {"t1", "t2"}

-----------------------------------------------------------------------------
(* app.py: the status globals shared by the scan worker (post_scan.run,    *)
(* _progress_cb) and the status handler (get_scan_status), and _scan_lock. *)
(* app.lock is the holder of the lock; app.worker the position of the      *)
(* worker; app.step, app.current_action and app.stages the globals         *)
(* _scan_step, _scan_current_action and _scan_stages; app.final_state      *)
(* whether _scan_final_state is set; app.committed the progress updates    *)
(* written so far; app.snapshot the data of the last status poll;          *)
(* app.unlocked the globals that were accessed without the lock.           *)

\* Progress updates of one run.
MaxProgress == 2

\* One progress update: the arguments of _progress_cb.
Update(step, action, stages) == [step |-> step, current_action |-> action, stages |-> stages]

\* The globals as post_scan resets them.
StartedApp ==
    [ lock |-> "free", worker |-> "run_scan", poller |-> "idle",
      step |-> 0, current_action |-> "", stages |-> <<>>, final_state |-> FALSE,
      committed |-> {Update(0, "", <<>>)},
      snapshot |-> Update(0, "", <<>>),
      unlocked |-> {} ]

InitStatus ==
    /\ goal_id = "full_stealth_tcp"
    /\ run_sudo = TRUE
    /\ nmap_execution = TRUE
    /\ state = initial
    /\ step_count = 0
    /\ consecutive_rejections = 0
    /\ last_action_id = ""
    /\ stage_outputs = <<>>
    /\ pc = "status"
    /\ cur = NoCur
    /\ iter = NewIter
    /\ llm_calls = 0
    /\ nmap_calls = 0
    /\ scan_status = "running"
    /\ proc = NoProc
    /\ app = StartedApp

StatusUnchanged ==
    UNCHANGED <<config, proc, state, consecutive_rejections, pc, cur, iter,
                llm_calls, nmap_calls>>

\* run_scan finishes an iteration and calls the progress callback with its
\* step, its last action and its stage outputs.
Progress(action_id) ==
    /\ pc = "status"
    /\ app.worker = "run_scan"
    /\ step_count < MaxProgress
    /\ step_count' = step_count + 1
    /\ last_action_id' = action_id
    /\ stage_outputs' = Append(stage_outputs, action_id)
    /\ app' = [app EXCEPT !.worker = "cb_acquire"]
    /\ UNCHANGED scan_status
    /\ StatusUnchanged

\* _progress_cb: `with _scan_lock:`
CbAcquire ==
    /\ pc = "status"
    /\ app.worker = "cb_acquire"
    /\ app.lock = "free"
    /\ app' = [app EXCEPT !.lock = "worker", !.worker = "cb_step"]
    /\ UNCHANGED <<step_count, last_action_id, stage_outputs, scan_status>>
    /\ StatusUnchanged

\* _progress_cb: `_scan_step = step`
CbWriteStep ==
    /\ pc = "status"
    /\ app.worker = "cb_step"
    /\ app' = [app EXCEPT !.step = step_count, !.worker = "cb_action",
                          !.unlocked = IF app.lock = "worker" THEN @ ELSE @ \cup {"step"}]
    /\ UNCHANGED <<step_count, last_action_id, stage_outputs, scan_status>>
    /\ StatusUnchanged

\* _progress_cb: `_scan_current_action = last_action_id`
CbWriteAction ==
    /\ pc = "status"
    /\ app.worker = "cb_action"
    /\ app' = [app EXCEPT !.current_action = last_action_id, !.worker = "cb_stages",
                          !.unlocked = IF app.lock = "worker" THEN @
                                       ELSE @ \cup {"current_action"}]
    /\ UNCHANGED <<step_count, last_action_id, stage_outputs, scan_status>>
    /\ StatusUnchanged

\* _progress_cb: `_scan_stages = stages`, the last log, and the end of the
\* `with` block.
CbWriteStagesAndRelease ==
    /\ pc = "status"
    /\ app.worker = "cb_stages"
    /\ app' = [app EXCEPT
                  !.stages = stage_outputs,
                  !.committed = @ \cup {Update(app.step, app.current_action, stage_outputs)},
                  !.unlocked = IF app.lock = "worker" THEN @ ELSE @ \cup {"stages"},
                  !.lock = "free",
                  !.worker = "run_scan"]
    /\ UNCHANGED <<step_count, last_action_id, stage_outputs, scan_status>>
    /\ StatusUnchanged

\* run_scan returns and the worker sets _scan_final_state in a `with
\* _scan_lock:` block.
WriteFinalState ==
    /\ pc = "status"
    /\ app.worker = "run_scan"
    /\ app.lock = "free"
    /\ app' = [app EXCEPT !.final_state = TRUE, !.worker = "dump"]
    /\ UNCHANGED <<step_count, last_action_id, stage_outputs, scan_status>>
    /\ StatusUnchanged

\* `json.dump(_scan_final_state, f, indent=2)`, after the `with` block.
DumpResults ==
    /\ pc = "status"
    /\ app.worker = "dump"
    /\ app' = [app EXCEPT !.worker = "report",
                          !.unlocked = IF app.lock = "worker" THEN @
                                       ELSE @ \cup {"final_state"}]
    /\ UNCHANGED <<step_count, last_action_id, stage_outputs, scan_status>>
    /\ StatusUnchanged

\* `_build_report_text(_scan_target, "done", _scan_step, ..., _scan_final_state, ...)`
BuildReport ==
    /\ pc = "status"
    /\ app.worker = "report"
    /\ app' = [app EXCEPT !.worker = "set_done",
                          !.unlocked = IF app.lock = "worker" THEN @
                                       ELSE @ \cup {"step", "current_action", "stages",
                                                    "last_log", "log_lines",
                                                    "final_state"}]
    /\ UNCHANGED <<step_count, last_action_id, stage_outputs, scan_status>>
    /\ StatusUnchanged

\* `with _scan_lock: _scan_status = "done"`
SetDone ==
    /\ pc = "status"
    /\ app.worker = "set_done"
    /\ app.lock = "free"
    /\ scan_status' = "done"
    /\ app' = [app EXCEPT !.worker = "finished"]
    /\ UNCHANGED <<step_count, last_action_id, stage_outputs>>
    /\ StatusUnchanged

\* run_scan raises: `with _scan_lock: _scan_error = str(e); _scan_status = "error"`
SetError ==
    /\ pc = "status"
    /\ app.worker = "run_scan"
    /\ app.lock = "free"
    /\ scan_status' = "error"
    /\ app' = [app EXCEPT !.worker = "finished"]
    /\ UNCHANGED <<step_count, last_action_id, stage_outputs>>
    /\ StatusUnchanged

\* get_scan_status: `with _scan_lock:`
PollAcquire ==
    /\ pc = "status"
    /\ app.poller = "idle"
    /\ app.lock = "free"
    /\ app' = [app EXCEPT !.lock = "poller", !.poller = "reading"]
    /\ UNCHANGED <<step_count, last_action_id, stage_outputs, scan_status>>
    /\ StatusUnchanged

\* get_scan_status: the data dictionary is built and the block ends.
PollReadAndRelease ==
    /\ pc = "status"
    /\ app.poller = "reading"
    /\ app' = [app EXCEPT
                  !.snapshot = Update(app.step, app.current_action, app.stages),
                  !.unlocked = IF app.lock = "poller" THEN @
                               ELSE @ \cup {"step", "current_action", "stages"},
                  !.lock = "free",
                  !.poller = "idle"]
    /\ UNCHANGED <<step_count, last_action_id, stage_outputs, scan_status>>
    /\ StatusUnchanged

NextStatus ==
    \/ \E action_id \in {"host_reachability", "port_scan"} : Progress(action_id)
    \/ CbAcquire
    \/ CbWriteStep
    \/ CbWriteAction
    \/ CbWriteStagesAndRelease
    \/ WriteFinalState
    \/ DumpResults
    \/ BuildReport
    \/ SetDone
    \/ SetError
    \/ PollAcquire
    \/ PollReadAndRelease

SpecStatus == InitStatus /\ [][NextStatus]_vars

\* Second half of C26: the data of a status poll is one progress update (its
\* step, current action and stages were written by the same call of
\* _progress_cb).
C26_SnapshotConsistent == pc = "status" => app.snapshot \in app.committed

\* C26 as claimed: no shared status field is read or written without the
\* lock, and every poll returns the step, current action and stages of one
\* progress update.
C26_AllAccessUnderLock ==
    pc = "status" => (app.unlocked = {} /\ app.snapshot \in app.committed)

-----------------------------------------------------------------------------
(* The invocation compiler on its own: an accepted reply is compiled as    *)
(* the loop compiles it (agent.py 119, 133, 157-160), for any elevation    *)
(* setting and any set of known open ports.                                *)

\* open_ports lists a ScanState can hold (unique, sorted by protocol, port).
KnownOpenPorts ==
    { <<>>,
      << <<80, "tcp">> >>,
      << <<22, "tcp">>, <<80, "tcp">>, <<443, "tcp">>, <<9000, "tcp">> >>,
      << <<9000, "tcp">>, <<53, "udp">> >>,
      << <<53, "tcp">>, <<53, "udp">> >> }

\* The invocation compiled: cur with the timeout passed to the compiler.
Compiled(action_id, argv, reply, timeout_sec) ==
    [action_id |-> action_id, argv |-> argv, reply |-> reply, timeout_sec |-> timeout_sec]

InitCompiler ==
    /\ goal_id \in {"simple_recon", "full_stealth_tcp"}
    /\ run_sudo \in BOOLEAN
    /\ nmap_execution = TRUE
    /\ state \in {[initial EXCEPT !.open_ports = op] : op \in KnownOpenPorts}
    /\ step_count = 1
    /\ consecutive_rejections = 0
    /\ last_action_id = ""
    /\ stage_outputs = <<>>
    /\ pc = "compiler"
    /\ cur = Compiled(None, <<>>, NoJson, DEFAULT_TIMEOUT)
    /\ iter = NewIter
    /\ llm_calls = 0
    /\ nmap_calls = 0
    /\ scan_status = "running"
    /\ proc = NoProc
    /\ app = NoApp

\* validate_intent accepts the reply with an action other than `done`; the
\* port range argument, the timeout and the argv follow (RuntimeError:
\* pc = "compile_raised").
Compile(reply) ==
    LET parsed == validate_intent(reply, state, goal_id)
        action_id == parsed.action_id
        port_range_arg == port_range_arg_of(action_id, parsed.params)
        timeout_sec == timeout_for(action_id, port_range_arg)
        compiled == get_nmap_argv(action_id, Target, run_sudo, timeout_sec,
                                  state.open_ports, port_range_arg)
    IN  /\ pc = "compiler"
        /\ action_id \notin {None, "done"}
        /\ last_action_id' = action_id
        /\ cur' = Compiled(action_id, compiled.argv, reply, timeout_sec)
        /\ pc' = IF compiled.raises THEN "compile_raised" ELSE "compiled"
        /\ UNCHANGED <<config, proc, app, state, step_count, consecutive_rejections,
                       stage_outputs, iter, llm_calls, nmap_calls, scan_status>>

NextCompiler == \E reply \in ValidatorReplies : Compile(reply)

SpecCompiler == InitCompiler /\ [][NextCompiler]_vars

\* The fixed flags of each action.
FlagsOf(action_id) ==
    CASE action_id = "host_reachability" -> {"-sn", "-vv", "-oX", "-"}
      [] action_id = "port_scan" ->
            {"-sS", "-p", "-T4", "-vv", "--host-timeout", "-oX", "-"}
      [] action_id \in {"service_detect", "service_detect_common"} ->
            {"-sS", "-sV", "-p", "-T4", "-vv", "--host-timeout", "-oX", "-"}
      [] action_id = "os_fingerprint" -> {"-O", "-p", "-vv", "-oX", "-"}
      [] OTHER -> {}

\* The ports named by a comma-separated list of numbers.
PortsNamed(value) ==
    {int(split(value, ",")[k]).val : k \in 1..Len(split(value, ","))}

\* The -p value of the compiled invocation is the validated range of the
\* reply (port scan), or is built from the known open ports (with the fixed
\* closed port for OS detection), or is a fixed fallback when none is known.
PortValueAllowed(value) ==
    IF cur.action_id = "port_scan"
    THEN /\ _validate_port_range(OrElse(cur.reply.range, cur.reply.port_range)) # None
         /\ value = _validate_port_range(OrElse(cur.reply.range, cur.reply.port_range))
    ELSE IF state.open_ports = <<>>
    THEN value \in {"1-65535", "22,80,443,8080,8443"}
    ELSE PortsNamed(value) \subseteq
            {state.open_ports[k][1] : k \in 1..Len(state.open_ports)}
            \cup (IF cur.action_id = "os_fingerprint" THEN {OS_DETECT_CLOSED_PORT} ELSE {})

\* Every element of the compiled argv but the last is sudo, -n, the scanner
\* path, a flag of the action, the timeout (alone or in --host-timeout=N) or
\* the -p value; the last is the target.
ArgvInAllowList(timeout_sec) ==
    LET argv == cur.argv
        t == str(timeout_sec)
    IN  /\ argv[Len(argv)] = Target
        /\ \A i \in 1..(Len(argv) - 1) :
              \/ argv[i] \in {"sudo", "-n", nmap_path} \cup FlagsOf(cur.action_id)
                             \cup {t, "--host-timeout=" \o t}
              \/ i > 1 /\ argv[i - 1] = "-p" /\ PortValueAllowed(argv[i])
        /\ \A i \in 1..(Len(argv) - 1) :
              argv[i] \notin {"-A", "-sC", "--script", "-iL"}

\* An argv with its -p value blanked.
WithoutPortValue(argv) ==
    [i \in 1..Len(argv) |-> IF i > 1 /\ argv[i - 1] = "-p" THEN "" ELSE argv[i]]

\* The argv of the action compiled without any intent parameter, at a given
\* timeout.
ReferenceArgv(timeout_sec) ==
    get_nmap_argv(cur.action_id, Target, run_sudo, timeout_sec, state.open_ports,
                  IF cur.action_id = "port_scan" THEN "1" ELSE None).argv

\* C31 as claimed: the compiled argv is within the allow-list with the
\* default timeout as its timeout number, and the reply's parameters change
\* nothing in it but the -p value.
C31_ParamsOnlyPortValue ==
    (pc = "compiled" /\ cur.argv # <<>>) =>
        /\ ArgvInAllowList(DEFAULT_TIMEOUT)
        /\ WithoutPortValue(cur.argv) = WithoutPortValue(ReferenceArgv(DEFAULT_TIMEOUT))

\* C31 amended: the compiled argv is within the allow-list (the target is
\* passed through as the last element; --host-timeout carries the timeout as
\* the next element or as --host-timeout=N); the reply's parameters change
\* the -p value and, for the port-scan range 1-65535 only, the timeout number
\* (3600 for 300), and nothing else.
C31_ArgvAllowList ==
    (pc = "compiled" /\ cur.argv # <<>>) =>
        /\ ArgvInAllowList(cur.timeout_sec)
        /\ cur.timeout_sec =
              (IF cur.action_id = "port_scan" /\ PortArgument(cur.argv) = "1-65535"
               THEN 3600 ELSE DEFAULT_TIMEOUT)
        /\ WithoutPortValue(cur.argv) = WithoutPortValue(ReferenceArgv(cur.timeout_sec))

\* C31 witness: a full-range port scan has been compiled under elevation.
C31_Witness ==
    /\ pc = "compiled"
    /\ cur.action_id = "port_scan"
    /\ cur.argv # <<>>
    /\ cur.argv[1] = "sudo"
    /\ PortArgument(cur.argv) = "1-65535"
    /\ cur.timeout_sec = 3600

-----------------------------------------------------------------------------
(* app.py: the life of scans.  Two clients post scans (post_scan), each    *)
(* accepted post starts a worker thread (post_scan.run), a third client    *)
(* polls the status (get_scan_status).  app.lock is the holder of          *)
(* _scan_lock; app.scan_id the number of scans accepted (_scan_id, 0 for   *)
(* None); app.post the position of each client's request; app.worker the   *)
(* position of the worker each client started, app.wid the scan id it read *)
(* and app.wres what run_scan returned to it; app.final_state is           *)
(* _scan_final_state; app.returned what run_scan returned for each scan    *)
(* id; app.snapshot the data of the last status poll.  The debug counter   *)
(* _status_poll_count is left out.                                         *)

\* Scans after which no further request arrives.
MaxScans == 2

Clients == {"p1", "p2"}

\* What run_scan returns: the ScanState and the stage outputs.
RunResult(st, stages) == [state |-> st, stages |-> stages]

RunResults ==
    { RunResult(initial, <<>>),
      RunResult(after_nmap(initial, "port_scan", Outcome(PortsDocA, 0, "")),
                <<"port_scan">>) }

\* _scan_final_state is None.
NoResults == [scan_id |-> 0, result |-> RunResult(initial, <<>>)]

\* The module globals at import.
IdleApp ==
    [ lock |-> "free", scan_id |-> 0,
      post |-> [r \in Clients |-> "idle"],
      worker |-> [r \in Clients |-> "none"],
      wid |-> [r \in Clients |-> 0],
      wres |-> [r \in Clients |-> RunResult(initial, <<>>)],
      final_state |-> NoResults,
      returned |-> [k \in 1..(MaxScans + 1) |-> RunResult(initial, <<>>)],
      snapshot |-> [status |-> "idle", scan_id |-> 0, results |-> NoResults] ]

InitScans ==
    /\ goal_id = "full_stealth_tcp"
    /\ run_sudo = TRUE
    /\ nmap_execution = TRUE
    /\ state = initial
    /\ step_count = 0
    /\ consecutive_rejections = 0
    /\ last_action_id = ""
    /\ stage_outputs = <<>>
    /\ pc = "scans"
    /\ cur = NoCur
    /\ iter = NewIter
    /\ llm_calls = 0
    /\ nmap_calls = 0
    /\ scan_status = "idle"
    /\ proc = NoProc
    /\ app = IdleApp

ScansUnchanged ==
    UNCHANGED <<config, proc, state, step_count, consecutive_rejections,
                last_action_id, stage_outputs, pc, cur, iter, llm_calls, nmap_calls>>

\* post_scan up to the lock: the body is read, the target, the API key and
\* sudo are checked.
PostEnter(r) ==
    /\ pc = "scans"
    /\ app.post[r] = "idle"
    /\ app.scan_id < MaxScans
    /\ app' = [app EXCEPT !.post[r] = "checked"]
    /\ UNCHANGED scan_status
    /\ ScansUnchanged

\* post_scan: `with _scan_lock:`
PostAcquire(r) ==
    /\ pc = "scans"
    /\ app.post[r] = "checked"
    /\ app.lock = "free"
    /\ app' = [app EXCEPT !.lock = r, !.post[r] = "locked"]
    /\ UNCHANGED scan_status
    /\ ScansUnchanged

\* Mutant of PostCheckAndSet: the status is not looked at.
PostSetUnchecked(r) ==
    /\ pc = "scans"
    /\ app.post[r] = "locked"
    /\ scan_status' = "running"
    /\ app' = [app EXCEPT !.lock = "free", !.post[r] = "start",
                          !.scan_id = @ + 1, !.final_state = NoResults]
    /\ ScansUnchanged

\* post_scan inside the lock: 409 when a scan is running, else the new scan
\* id, status running and the other globals reset; the block ends.
PostCheckAndSet(r) ==
    /\ pc = "scans"
    /\ app.post[r] = "locked"
    /\ IF scan_status = "running"
       THEN /\ app' = [app EXCEPT !.lock = "free", !.post[r] = "idle"]
            /\ UNCHANGED scan_status
       ELSE /\ scan_status' = "running"
            /\ app' = [app EXCEPT !.lock = "free", !.post[r] = "start",
                                  !.scan_id = @ + 1, !.final_state = NoResults]
    /\ ScansUnchanged

\* post_scan: `t = threading.Thread(target=run, daemon=True); t.start()`
PostStartThread(r) ==
    /\ pc = "scans"
    /\ app.post[r] = "start"
    /\ app.worker[r] = "none"
    /\ app' = [app EXCEPT !.post[r] = "idle", !.worker[r] = "started"]
    /\ UNCHANGED scan_status
    /\ ScansUnchanged

\* post_scan.run before its try block: `scan_id = _scan_id`, then the log
\* directories are made; an OSError there ends the thread.
WorkerStart(r, dirs_made) ==
    /\ pc = "scans"
    /\ app.worker[r] = "started"
    /\ app' = [app EXCEPT !.wid[r] = app.scan_id,
                          !.worker[r] = IF dirs_made THEN "run_scan" ELSE "dead"]
    /\ UNCHANGED scan_status
    /\ ScansUnchanged

\* run_scan returns (state, scans_run, stage_outputs).
WorkerRunScanReturns(r, res) ==
    /\ pc = "scans"
    /\ app.worker[r] = "run_scan"
    /\ app' = [app EXCEPT !.wres[r] = res, !.returned[app.wid[r]] = res,
                          !.worker[r] = "set_final"]
    /\ UNCHANGED scan_status
    /\ ScansUnchanged

\* run_scan raises (or the log file cannot be opened).
WorkerRunScanRaises(r) ==
    /\ pc = "scans"
    /\ app.worker[r] = "run_scan"
    /\ app' = [app EXCEPT !.worker[r] = "set_error"]
    /\ UNCHANGED scan_status
    /\ ScansUnchanged

\* `with _scan_lock: _scan_final_state = {...}`
WorkerSetFinalState(r) ==
    /\ pc = "scans"
    /\ app.worker[r] = "set_final"
    /\ app.lock = "free"
    /\ app' = [app EXCEPT !.final_state = [scan_id |-> app.wid[r], result |-> app.wres[r]],
                          !.worker[r] = "report"]
    /\ UNCHANGED scan_status
    /\ ScansUnchanged

\* The results file and the report are written; an OSError is logged, any
\* other exception reaches `except Exception`.
WorkerReport(r, raised) ==
    /\ pc = "scans"
    /\ app.worker[r] = "report"
    /\ app' = [app EXCEPT !.worker[r] = IF raised THEN "set_error" ELSE "set_done"]
    /\ UNCHANGED scan_status
    /\ ScansUnchanged

\* `with _scan_lock: _scan_status = "done"`; the thread ends.
WorkerSetDone(r) ==
    /\ pc = "scans"
    /\ app.worker[r] = "set_done"
    /\ app.lock = "free"
    /\ scan_status' = "done"
    /\ app' = [app EXCEPT !.worker[r] = "none"]
    /\ ScansUnchanged

\* `with _scan_lock: _scan_error = str(e); _scan_status = "error"`; the
\* thread ends.
WorkerSetError(r) ==
    /\ pc = "scans"
    /\ app.worker[r] = "set_error"
    /\ app.lock = "free"
    /\ scan_status' = "error"
    /\ app' = [app EXCEPT !.worker[r] = "none"]
    /\ ScansUnchanged

\* get_scan_status: the data is built inside the lock; results are included
\* when the status is done and _scan_final_state is set.
StatusPoll ==
    /\ pc = "scans"
    /\ app.lock = "free"
    /\ app' = [app EXCEPT !.snapshot =
                  [status |-> scan_status, scan_id |-> app.scan_id,
                   results |-> IF scan_status = "done" /\ app.final_state # NoResults
                               THEN app.final_state ELSE NoResults]]
    /\ UNCHANGED scan_status
    /\ ScansUnchanged

NextScans ==
    \/ \E r \in Clients : PostEnter(r)
    \/ \E r \in Clients : PostAcquire(r)
    \/ \E r \in Clients : PostCheckAndSet(r)
    \/ \E r \in Clients : PostStartThread(r)
    \/ \E r \in Clients, dirs_made \in BOOLEAN : WorkerStart(r, dirs_made)
    \/ \E r \in Clients, res \in RunResults : WorkerRunScanReturns(r, res)
    \/ \E r \in Clients : WorkerRunScanRaises(r)
    \/ \E r \in Clients : WorkerSetFinalState(r)
    \/ \E r \in Clients, raised \in BOOLEAN : WorkerReport(r, raised)
    \/ \E r \in Clients : WorkerSetDone(r)
    \/ \E r \in Clients : WorkerSetError(r)
    \/ StatusPoll

SpecScans == InitScans /\ [][NextScans]_vars

\* The clients whose worker thread is alive or about to be started.
ActiveWorkers ==
    {r \in Clients : app.worker[r] \notin {"none", "dead"} \/ app.post[r] = "start"}

PolledResultsAreFinal ==
    pc = "scans" =>
        /\ app.snapshot.status = "done" =>
              /\ app.snapshot.results # NoResults
              /\ app.snapshot.results.scan_id = app.snapshot.scan_id
              /\ app.snapshot.results.result = app.returned[app.snapshot.scan_id]
        /\ app.snapshot.status # "done" => app.snapshot.results = NoResults

\* The status moves idle -> running -> (done | error) -> running.
StatusCycle ==
    [][pc = "scans" /\ scan_status' # scan_status =>
          \/ scan_status \in {"idle", "done", "error"} /\ scan_status' = "running"
          \/ scan_status = "running" /\ scan_status' \in {"done", "error"}]_vars

\* C34: the status follows idle -> running -> (done | error) -> running; a
\* poll that observes done carries the final results, equal to what run_scan
\* returned for that scan id; no results are exposed while the status is
\* running; and a worker that ended by an exception leaves the status error.
C34_StatusLifecycle ==
    /\ []PolledResultsAreFinal
    /\ StatusCycle
    /\ [][\A r \in Clients :
            (pc = "scans" /\ app.worker[r] = "set_error" /\ app'.worker[r] = "none")
            => scan_status' = "error"]_vars
    /\ [](pc = "scans" => \A r \in Clients : app.worker[r] = "dead" => scan_status = "error")

-----------------------------------------------------------------------------
(* nmap_runner.py, streaming modes: the data path of one run_nmap call.    *)
(* The child writes diagnostic lines to stderr (a pipe, or the slave side  *)
(* of a PTY) and structured output to stdout; read_stdout (t1) and         *)
(* read_stderr / read_stderr_pty (t2) move it to stdout_chunks and         *)
(* stderr_chunks and call output_stream_callback per line, which appends   *)
(* to _scan_current_output (app.current_output); app.step is the step the  *)
(* agent is in.  proc.delivered is the text passed to the callback by this *)
(* call's reader.                                                          *)

\* Diagnostic lines the child can write.
MaxLines == 2

StderrLine(i) == "L" \o str(i) \o "\n"

StdoutChunk == "<nmaprun/>"

RECURSIVE join(_)
\* "".join(chunks)
join(chunks) == IF chunks = <<>> THEN "" ELSE Head(chunks) \o join(Tail(chunks))

NewStream(mode) ==
    [ mode |-> mode, at |-> "wait", child |-> "running", elapsed |-> 0,
      lines_written |-> 0, stdout_written |-> FALSE,
      stderr_pipe |-> <<>>, stdout_pipe |-> <<>>,
      stderr_chunks |-> <<>>, stdout_chunks |-> <<>>,
      t1 |-> "reading", t2 |-> "reading", line |-> "",
      master_closed |-> FALSE, timed_out |-> FALSE,
      delivered |-> "", stdout |-> "", stderr |-> "", returncode |-> 0 ]

\* All the child has written to stderr and to stdout.
written_stderr == join([i \in 1..proc.lines_written |-> StderrLine(i)])
written_stdout == IF proc.stdout_written THEN StdoutChunk ELSE ""

\* The call is past Popen and the start of the two reader threads.
InitStream ==
    /\ goal_id = "full_stealth_tcp"
    /\ run_sudo = FALSE
    /\ nmap_execution = TRUE
    /\ state = initial
    /\ step_count = 1
    /\ consecutive_rejections = 0
    /\ last_action_id = ""
    /\ stage_outputs = <<>>
    /\ pc = "stream"
    /\ cur = Invocation("host_reachability", FALSE)
    /\ iter = NewIter
    /\ llm_calls = 0
    /\ nmap_calls = 0
    /\ scan_status = "running"
    /\ proc \in {NewStream(mode) : mode \in {"pipe", "pty"}}
    /\ app = [step |-> 1, current_output |-> ""]

StreamUnchanged ==
    UNCHANGED <<config, state, step_count, consecutive_rejections,
                last_action_id, stage_outputs, pc, cur, iter, llm_calls,
                nmap_calls, scan_status>>

\* The child writes a diagnostic line.
ChildWritesStderr ==
    /\ pc = "stream"
    /\ proc.child = "running"
    /\ proc.lines_written < MaxLines
    /\ proc' = [proc EXCEPT !.lines_written = @ + 1,
                            !.stderr_pipe = Append(@, StderrLine(proc.lines_written + 1))]
    /\ UNCHANGED app
    /\ StreamUnchanged

\* The child writes its structured output.
ChildWritesStdout ==
    /\ pc = "stream"
    /\ proc.child = "running"
    /\ ~proc.stdout_written
    /\ proc' = [proc EXCEPT !.stdout_written = TRUE,
                            !.stdout_pipe = Append(@, StdoutChunk)]
    /\ UNCHANGED app
    /\ StreamUnchanged

\* The child ends by itself.
StreamChildExits ==
    /\ pc = "stream"
    /\ proc.child = "running"
    /\ proc' = [proc EXCEPT !.child = "exited"]
    /\ UNCHANGED app
    /\ StreamUnchanged

\* Time passes in proc.wait(timeout=run_timeout).
StreamTick ==
    /\ pc = "stream"
    /\ proc.at = "wait"
    /\ proc.child = "running"
    /\ proc.elapsed < RunTimeoutTicks
    /\ proc' = [proc EXCEPT !.elapsed = @ + 1]
    /\ UNCHANGED app
    /\ StreamUnchanged

\* read_stdout: one chunk is read and kept.
ReadStdout ==
    /\ pc = "stream"
    /\ proc.t1 = "reading"
    /\ proc.stdout_pipe # <<>>
    /\ proc' = [proc EXCEPT !.stdout_pipe = Tail(@),
                            !.stdout_chunks = Append(@, Head(proc.stdout_pipe))]
    /\ UNCHANGED app
    /\ StreamUnchanged

\* read_stdout: end of file.
ReadStdoutEnds ==
    /\ pc = "stream"
    /\ proc.t1 = "reading"
    /\ proc.stdout_pipe = <<>>
    /\ proc.child # "running"
    /\ proc' = [proc EXCEPT !.t1 = "finished"]
    /\ UNCHANGED app
    /\ StreamUnchanged

\* read_stderr / read_stderr_pty: a line is read and appended to
\* stderr_chunks.  Reading a closed PTY master raises OSError.
ReadStderr ==
    /\ pc = "stream"
    /\ proc.t2 = "reading"
    /\ proc.stderr_pipe # <<>>
    /\ ~(proc.mode = "pty" /\ proc.master_closed)
    /\ proc' = [proc EXCEPT !.stderr_pipe = Tail(@),
                            !.stderr_chunks = Append(@, Head(proc.stderr_pipe)),
                            !.line = Head(proc.stderr_pipe),
                            !.t2 = "calling"]
    /\ UNCHANGED app
    /\ StreamUnchanged

\* output_stream_callback(line): _on_nmap_stream appends the line to
\* _scan_current_output.
CallOutputStream ==
    /\ pc = "stream"
    /\ proc.t2 = "calling"
    /\ proc' = [proc EXCEPT !.delivered = @ \o proc.line, !.line = "", !.t2 = "reading"]
    /\ app' = [app EXCEPT !.current_output = @ \o proc.line]
    /\ StreamUnchanged

\* The stderr reader leaves its loop: end of file, or OSError from os.read
\* on the closed PTY master.
ReadStderrEnds ==
    /\ pc = "stream"
    /\ proc.t2 = "reading"
    /\ \/ proc.stderr_pipe = <<>> /\ proc.child # "running"
       \/ proc.mode = "pty" /\ proc.master_closed
    /\ proc' = [proc EXCEPT !.t2 = "finished"]
    /\ UNCHANGED app
    /\ StreamUnchanged

\* proc.wait returns because the child has exited; the PTY mode closes the
\* master side before it joins the readers.
WaitSeesExit ==
    /\ pc = "stream"
    /\ proc.at = "wait"
    /\ proc.child = "exited"
    /\ proc' = [proc EXCEPT !.at = "join_t1",
                            !.master_closed = (proc.mode = "pty")]
    /\ UNCHANGED app
    /\ StreamUnchanged

\* t1.join(timeout=10): the reader has finished, or the ten seconds pass.
JoinStdoutReader(expired) ==
    /\ pc = "stream"
    /\ proc.at = "join_t1"
    /\ IF expired THEN proc.t1 # "finished" ELSE proc.t1 = "finished"
    /\ proc' = [proc EXCEPT !.at = "join_t2"]
    /\ UNCHANGED app
    /\ StreamUnchanged

\* t2.join(timeout=5), then the return of the joined chunks.
JoinStderrReader(expired) ==
    /\ pc = "stream"
    /\ proc.at = "join_t2"
    /\ IF expired THEN proc.t2 # "finished" ELSE proc.t2 = "finished"
    /\ proc' = [proc EXCEPT !.at = "returned",
                            !.stdout = join(proc.stdout_chunks),
                            !.stderr = join(proc.stderr_chunks),
                            !.returncode = 0]
    /\ UNCHANGED app
    /\ StreamUnchanged

\* proc.wait raises TimeoutExpired: the child is killed and waited for, the
\* PTY master is closed, ("", 1, "") is returned.
StreamTimeout ==
    /\ pc = "stream"
    /\ proc.at = "wait"
    /\ proc.child = "running"
    /\ proc.elapsed = RunTimeoutTicks
    /\ proc' = [proc EXCEPT !.at = "returned", !.child = "killed", !.timed_out = TRUE,
                            !.master_closed = (proc.mode = "pty"),
                            !.stdout = "", !.stderr = "", !.returncode = 1]
    /\ UNCHANGED app
    /\ StreamUnchanged

\* The agent goes on to a later step; _progress_cb gets its "Running:"
\* message and clears _scan_current_output.
LaterStepStarts ==
    /\ pc = "stream"
    /\ proc.at = "returned"
    /\ app.step = 1
    /\ app' = [app EXCEPT !.step = 2, !.current_output = ""]
    /\ UNCHANGED proc
    /\ StreamUnchanged

NextStream ==
    \/ ChildWritesStderr
    \/ ChildWritesStdout
    \/ StreamChildExits
    \/ StreamTick
    \/ ReadStdout
    \/ ReadStdoutEnds
    \/ ReadStderr
    \/ CallOutputStream
    \/ ReadStderrEnds
    \/ WaitSeesExit
    \/ \E expired \in BOOLEAN : JoinStdoutReader(expired)
    \/ \E expired \in BOOLEAN : JoinStderrReader(expired)
    \/ StreamTimeout
    \/ LaterStepStarts

SpecStream == InitStream /\ [][NextStream]_vars

\* C35 as claimed: after run_nmap has returned, normally or by timeout, the
\* callback gets no further line from that call's readers; so while a later
\* step runs the live output holds no line of the earlier call's child.
C35_NoOutputAfterReturn ==
    /\ [][pc = "stream" /\ proc.at = "returned" => proc'.delivered = proc.delivered]_vars
    /\ [](pc = "stream" /\ app.step = 2 => app.current_output = "")

\* C36 as claimed: when the child exited by itself before the timeout, at
\* the return every diagnostic line it wrote has been passed to the callback
\* once and in order, the returned stderr text is the text passed to the
\* callback, and the returned stdout is all the child wrote.
C36_OutputComplete ==
    pc = "stream" /\ proc.at = "returned" /\ ~proc.timed_out =>
        /\ proc.delivered = written_stderr
        /\ proc.stderr = proc.delivered
        /\ proc.stdout = written_stdout

-----------------------------------------------------------------------------
\* C37: validate_intent is never called on a state whose goal is achieved
\* (the test at the head of the iteration and the validation see the same
\* ScanState), and an iteration that starts with the goal achieved ends the
\* run without another oracle call.
C37_NoValidationAfterGoal ==
    /\ [](pc = "call_llm" => ~goal_achieved(state, goal_id))
    /\ [][pc = "loop_top" /\ goal_achieved(state, goal_id)
            => pc' = "returned" /\ llm_calls' = llm_calls /\ state' = state]_vars

\* C37 witness: a run that executed a scan, found its goal achieved at the
\* head of the next iteration and returned; every earlier iteration called
\* the oracle, the last one did not.
C37_Witness ==
    /\ pc = "returned"
    /\ goal_achieved(state, goal_id)
    /\ state.nmap_run_count >= 1
    /\ step_count <= max_steps
    /\ llm_calls = step_count - 1


\* C38: under a goal that allows the host check, once a host check has left
\* host_reachability = no_response (an empty, timed-out or unparsable result
\* included) the next iteration start ends the run: no oracle call and no
\* scanner invocation follow, and the state summary and the oracle call are
\* never made for a state with reachability no_response.
C38_NoResponseEndsRun ==
    /\ [](~is_port_scan_goal(goal_id) /\ pc \in {"call_llm", "run_nmap"}
            => state.host_reachability # "no_response")
    /\ [][~is_port_scan_goal(goal_id) /\ state.host_reachability = "no_response"
            => /\ llm_calls' = llm_calls
               /\ nmap_calls' = nmap_calls
               /\ state' = state
               /\ pc = "loop_top" => pc' = "returned"]_vars

\* C38 witness: under simple_recon the first action was a host check that
\* left reachability no_response, and the run has returned at the start of
\* the next iteration.
C38_Witness ==
    /\ goal_id = "simple_recon"
    /\ pc = "returned"
    /\ state.host_reachability = "no_response"
    /\ state.scans_run = <<"host_reachability">>
    /\ llm_calls = 1
    /\ step_count = 2


\* The goal is achieved by a port scan alone.
port_scan_only_goal == achieved_when_of(goal_id) = "port_scan_only"

\* The results of a failed invocation: timeout, or a non-zero exit with
\* output that does not parse.
FailedOutcomes == {TimedOut, Outcome(MalformedXml, 1, "QUITTING")}

\* The step applies the result of a failed first port scan.
FirstPortScanFails ==
    /\ port_scan_only_goal
    /\ pc = "run_nmap"
    /\ cur.action_id = "port_scan"
    /\ ~In("port_scan", state.scans_run)
    /\ \E out \in FailedOutcomes : state' = after_nmap(state, "port_scan", out)

\* An iteration that starts after a port scan under a port-scan-only goal
\* ends the run without an oracle call.
PortScanEndsRun ==
    [][port_scan_only_goal /\ pc = "loop_top" /\ In("port_scan", state.scans_run)
          => pc' = "returned" /\ llm_calls' = llm_calls /\ state' = state]_vars

SERVICE_DETECT_ACTIONS == {"service_detect", "service_detect_common"}

\* C40: in every state of a run a service_detect or service_detect_common
\* entry of scans_run comes with a non-empty open_ports and an earlier
\* port_scan entry; in dry-run mode open_ports stays empty and no
\* service-detect action is accepted.
C40_ServiceDetectAfterPortScan ==
    /\ \A i \in 1..Len(state.scans_run) :
          state.scans_run[i] \in SERVICE_DETECT_ACTIONS
          => /\ state.open_ports # <<>>
             /\ \E j \in 1..(i - 1) : state.scans_run[j] = "port_scan"
    /\ ~nmap_execution
          => /\ state.open_ports = <<>>
             /\ cur.action_id \notin SERVICE_DETECT_ACTIONS
             /\ last_action_id \notin SERVICE_DETECT_ACTIONS
             /\ \A i \in 1..Len(state.scans_run) :
                   state.scans_run[i] \notin SERVICE_DETECT_ACTIONS

\* C40 witness: a port scan found open ports and a service detection was
\* executed after it.
C40_Witness ==
    /\ nmap_execution
    /\ pc = "loop_top"
    /\ state.open_ports # <<>>
    /\ Len(state.scans_run) = 2
    /\ state.scans_run[1] = "port_scan"
    /\ state.scans_run[2] \in SERVICE_DETECT_ACTIONS

=============================================================================
